---------------------------- MODULE Spec2Model ----------------------------
(***************************************************************************)
(* Model of the API monitoring engine (aravindsiva13/apiper):              *)
(*   src/services/monitorService.js          performance cycle, alerts,    *)
(*                                           incidents                     *)
(*   src/services/securityMonitorService.js  security cycle                *)
(*   src/controllers/apiController.js        status updates, endpoint      *)
(*                                           toggling, start/stop routes   *)
(*                                                                         *)
(* The process is a single Node.js event loop.  An async function runs     *)
(* atomically between two awaits; start() and a cycle run are therefore    *)
(* split into one action per stretch of code between awaits on the store   *)
(* or on the probes.  The work done for one endpoint inside a cycle        *)
(* (collectEndpointMetrics and everything it calls) is one action.         *)
(*                                                                         *)
(* The store is an external collaborator.  Tables are sequences in         *)
(* insertion order, a row's id is its index, and findOne without ORDER BY  *)
(* returns the matching row of lowest id.  Every store call may fail: a    *)
(* handler takes the set F of call sites that fail during its execution.   *)
(***************************************************************************)
EXTENDS Integers, Sequences, FiniteSets, TLC

(***************************************************************************)
(* Bounds of the model.                                                    *)
(***************************************************************************)
MaxTime   == 3      \* the clock runs over 0..MaxTime
MaxCycles == 3      \* cycle runs begun in one behaviour of the scheduler
MaxCalls  == 2      \* start() calls in flight at any time
MaxTimers == 2      \* interval timers created in one behaviour
MaxRounds == 2      \* cycles of one behaviour in which probes are evaluated
MaxUpdates == 2     \* incident status updates in one behaviour
MaxProbes == 3      \* cycles of one behaviour that probe a single endpoint
MaxCreates == 3     \* createIncident calls and incident updates
MaxScans == 2       \* security scans of one behaviour
MaxSecUpdates == 2  \* security alert status updates in one behaviour
MaxAlertOps == 3    \* createAlert calls and alert updates in one behaviour
MaxStatusOps == 2   \* inserts and status updates of one behaviour
MaxPurgeOps == 2    \* probes, purges and endpoint deletions of one behaviour
MaxReloads == 2     \* toggles of endpoints, and cycles, of one behaviour
MaxEvals == 2       \* probes and alert updates over a stored window

(***************************************************************************)
(* Program constants.  Time is counted in ticks of half an hour.           *)
(***************************************************************************)
HourTicks == 2      \* moment().subtract(1, "hour")
DayTicks == 48      \* moment().subtract(1, "day")
RateThreshold == 100     \* requests in one minute
AuthThreshold == 5       \* 401 or 403 answers in one day
AuthHigh == 20
HeaderThreshold == 3     \* security headers missing
SensitiveLimit == 100    \* limit of the query of scanSensitiveData
VulnerabilityLimit == 10 \* limit of the query of vulnerabilityScan
StatusCodeThreshold == 400

NULL == -1          \* a nullable column holding null
Endpoints == {1, 2} \* ids of the rows of the Endpoint table
Svc == {"perf", "sec"}   \* monitorService, securityMonitorService

\* Endpoint rows: the three thresholds of models/index.js.  The strict row
\* escalates to incidents, the lenient one never does.
Strict  == [responseTimeThreshold |-> 500, errorRateThreshold |-> 10,
            availabilityThreshold |-> 90]
Lenient == [responseTimeThreshold |-> 500, errorRateThreshold |-> 100,
            availabilityThreshold |-> 0]
\* Rows whose thresholds a window of twenty or fifty Metrics meets exactly:
\* 11 of 20 is 55 %, 29 of 50 is 58 % (and 68 - 10 = 58).
AtRate == [responseTimeThreshold |-> 500, errorRateThreshold |-> 55,
           availabilityThreshold |-> 58]
AtFloor == [responseTimeThreshold |-> 500, errorRateThreshold |-> 100,
            availabilityThreshold |-> 68]
\* A row with its thresholds at the minimum that the validation of the
\* model allows.
Zeroed == [responseTimeThreshold |-> 0, errorRateThreshold |-> 0,
           availabilityThreshold |-> 0]
\* The Endpoint table: endpoint 1 is strict, endpoint 2 lenient.
EndpointRow(e) ==
  CASE e = 1 -> Strict
    [] e = 2 -> Lenient
    [] e = 3 -> AtRate
    [] e = 4 -> AtFloor
    [] e = 5 -> Zeroed

\* What the HTTP transport can answer to one probe.
\* The headers of a response, as the security scan reads them: how many of
\* the five security headers are missing, and whether a header holds a
\* secret (password: "abc123").  Hardened has them all and leaks nothing.
Hardened == [missing |-> 0, secret |-> FALSE]

Responses ==
  { [kind |-> "response", status |-> 200, responseTime |-> 100,
     headers |-> Hardened],
    [kind |-> "response", status |-> 200, responseTime |-> 800,
     headers |-> Hardened],
    [kind |-> "response", status |-> 500, responseTime |-> 100,
     headers |-> Hardened],
    [kind |-> "error", status |-> 0, responseTime |-> NULL,
     headers |-> Hardened] }

\* Store call sites that can fail inside one handler.
Sites == { "Metric.create", "Metric.create.catch", "Metric.findAll",
           "Alert.findOne", "Alert.create",
           "Incident.findOne", "Incident.create", "Alert.create.linked",
           "Incident.findByPk", "incident.save", "Alert.update",
           "Alert.findByPk", "alert.save" }

VARIABLES
  now,        \* wall clock, in ticks
  active,     \* Endpoint rows with isActive = true
  metrics,    \* Metric table
  alerts,     \* Alert table
  incidents,  \* Incident table
  securityAlerts,   \* SecurityAlert table
  isRunning,  \* this.isRunning of each service
  armed,      \* interval timers of each service that are armed
  handle,     \* this.monitoringInterval of each service (0 = null)
  nextTimer,  \* next fresh timer id
  endpoints,  \* monitorService.endpoints, the registry cache
  calls,      \* start() calls in flight
  runs,       \* cycle runs in flight
  cycles,     \* number of cycle runs begun
  ops,        \* number of controller or direct service calls made
  prev,       \* history: the last createAlert call of each (endpoint, type)
  stopped,    \* history: stop() returned true and start() was not called since
  last        \* history: the operation of the last step and what it returned

storeVars == <<metrics, alerts, incidents, securityAlerts>>
schedVars == <<isRunning, armed, handle, nextTimer, endpoints, calls, runs,
               cycles, stopped>>
vars == <<now, active, metrics, alerts, incidents, securityAlerts, isRunning,
          armed,
          handle, nextTimer, endpoints, calls, runs, cycles, ops, prev,
          stopped, last>>

---------------------------------------------------------------------------
(***************************************************************************)
(* Store helpers.                                                          *)
(***************************************************************************)
Min(S) == CHOOSE x \in S : \A y \in S : x <= y

Store == [metrics |-> metrics, alerts |-> alerts, incidents |-> incidents,
          securityAlerts |-> securityAlerts]

\* Model.findOne over the ids of the rows that match the where clause: the
\* first matching row, 0 when there is none.
findOne(matching) == IF matching = {} THEN 0 ELSE Min(matching)

\* Alert.update(values, {where}): set the status of every matching row.
updateAll(table, matching, status) ==
  [i \in DOMAIN table |->
     IF i \in matching THEN [table[i] EXCEPT !.status = status]
     ELSE table[i]]

\* metaData: {}, as the metric object starts.
NoMetaData == [k \in {} |-> k]

\* metaData of a response: headers, contentLength and contentType; the body
\* of the response is not kept.
MetaDataOf(resp) == [headers |-> resp.headers]

\* Metric.create: the row as collectEndpointMetrics fills it.
MetricRow(e, t, success, statusCode, responseTime, errorMessage, cycle) ==
  [endpointId |-> e, timestamp |-> t, success |-> success,
   statusCode |-> statusCode, responseTime |-> responseTime,
   errorMessage |-> errorMessage, cycle |-> cycle, metaData |-> NoMetaData]

\* Alert.create: status defaults to NEW, timestamps to now.
AlertRow(e, incidentId, type, value, threshold, t) ==
  [endpointId |-> e, incidentId |-> incidentId, type |-> type,
   value |-> value, threshold |-> threshold, status |-> "NEW",
   createdAt |-> t, acknowledgedAt |-> NULL, acknowledgedBy |-> "null"]

\* Incident.create.
IncidentRow(e, title, severity, statusCode, t) ==
  [endpointId |-> e, title |-> title, severity |-> severity,
   status |-> "OPEN", startTime |-> t, endTime |-> NULL,
   resolution |-> "null", resolvedBy |-> "null", statusCode |-> statusCode]

---------------------------------------------------------------------------
(***************************************************************************)
(* monitorService: alerts and incidents.  Each operator takes the store db *)
(* and returns the store it leaves and the id it returns (0 = undefined).  *)
(***************************************************************************)

\* The dedup lookup of createAlert.
SimilarAlert(a, e, type, t) ==
  /\ a.endpointId = e
  /\ a.type = type
  /\ a.status # "RESOLVED"
  /\ a.createdAt >= t - HourTicks

\* createAlert without its lookup: every call inserts.
createAlertNoDedup(db, e, type, value, threshold, t, F) ==
  IF "Alert.create" \in F THEN [db |-> db, ret |-> 0]
  ELSE [db |-> [db EXCEPT !.alerts =
                   Append(@, AlertRow(e, NULL, type, value, threshold, t))],
        ret |-> Len(db.alerts) + 1]

createAlert(db, e, type, value, threshold, t, F) ==
  LET existingAlert ==
        findOne({i \in DOMAIN db.alerts :
                   SimilarAlert(db.alerts[i], e, type, t)})
  IN IF "Alert.findOne" \in F THEN [db |-> db, ret |-> 0]
     ELSE IF existingAlert # 0 THEN [db |-> db, ret |-> existingAlert]
     ELSE IF "Alert.create" \in F THEN [db |-> db, ret |-> 0]
     ELSE [db |-> [db EXCEPT !.alerts =
                      Append(@, AlertRow(e, NULL, type, value, threshold, t))],
           ret |-> Len(db.alerts) + 1]

\* The lookup shared by createIncident and createIncidentFromError.
OpenIncident(i, e) == i.endpointId = e /\ i.status # "RESOLVED"

\* Incident.create followed by the linked Alert.create.
InsertIncident(db, e, title, severity, statusCode, alertType, t, F) ==
  LET existingIncident ==
        findOne({i \in DOMAIN db.incidents :
                   OpenIncident(db.incidents[i], e)})
      id == Len(db.incidents) + 1
      db1 == [db EXCEPT !.incidents =
                Append(@, IncidentRow(e, title, severity, statusCode, t))]
  IN IF "Incident.findOne" \in F THEN [db |-> db, ret |-> 0]
     ELSE IF existingIncident # 0 THEN [db |-> db, ret |-> existingIncident]
     ELSE IF "Incident.create" \in F THEN [db |-> db, ret |-> 0]
     ELSE IF "Alert.create.linked" \in F THEN [db |-> db1, ret |-> 0]
     ELSE [db |-> [db1 EXCEPT !.alerts =
                      Append(@, AlertRow(e, id, alertType, NULL, NULL, t))],
           ret |-> id]

createIncidentFromError(db, e, statusCode, t, F) ==
  InsertIncident(db, e, "Error detected", "MEDIUM", statusCode,
                 "STATUS_CODE", t, F)

createIncident(db, e, title, severity, t, F) ==
  InsertIncident(db, e, title, severity, NULL, "OTHER", t, F)

---------------------------------------------------------------------------
(***************************************************************************)
(* monitorService: threshold evaluation and the probe of one endpoint.     *)
(***************************************************************************)

\* Metric.findAll over the trailing hour of one endpoint.
LastHour(db, e, t) ==
  {i \in DOMAIN db.metrics :
     db.metrics[i].endpointId = e /\ db.metrics[i].timestamp >= t - HourTicks}

\* errorRate = errorMetrics / totalMetrics * 100, kept as a whole percentage
\* in the value of an Alert.
Percent(part, total) == (part * 100) \div total

\* (part / total) * 100 is computed in IEEE-754 doubles: the quotient is
\* rounded, then the product.  Where the exact percentage is a whole number
\* the double is 1: above it (11 / 20 * 100 = 55.00000000000001), -1: below
\* it (29 / 50 * 100 = 57.99999999999999), 0: equal to it.  The table holds
\* every pair with 0 <= part <= total <= 50; where the exact
\* percentage is not whole the double lies on the same side of every whole
\* number as the exact one.
Rounding(part, total) ==
  CASE <<part, total>> \in {<<11, 20>>, <<7, 25>>, <<14, 25>>, <<22, 40>>,
                            <<7, 50>>, <<14, 50>>, <<28, 50>>} -> 1
    [] <<part, total>> = <<29, 50>> -> -1
    [] OTHER -> 0

\* (part / total) * 100 > bound, for a whole number bound.
Above(part, total, bound) ==
  \/ part * 100 > bound * total
  \/ part * 100 = bound * total /\ Rounding(part, total) = 1

\* (part / total) * 100 < bound, for a whole number bound.
Below(part, total, bound) ==
  \/ part * 100 < bound * total
  \/ part * 100 = bound * total /\ Rounding(part, total) = -1

\* checkErrorRate without its escalation to an incident.
checkErrorRateAlertOnly(db, e, row, t, F) ==
  LET window == LastHour(db, e, t)
      totalMetrics == Cardinality(window)
      errorMetrics == Cardinality({i \in window : ~db.metrics[i].success})
  IN IF "Metric.findAll" \in F THEN db
     ELSE IF totalMetrics = 0 THEN db
     ELSE IF Above(errorMetrics, totalMetrics, row.errorRateThreshold)
          THEN createAlert(db, e, "ERROR_RATE",
                           Percent(errorMetrics, totalMetrics),
                           row.errorRateThreshold, t, F).db
     ELSE db

checkErrorRate(db, e, row, t, F) ==
  LET window == LastHour(db, e, t)
      totalMetrics == Cardinality(window)
      errorMetrics == Cardinality({i \in window : ~db.metrics[i].success})
      db1 == createAlert(db, e, "ERROR_RATE",
                         Percent(errorMetrics, totalMetrics),
                         row.errorRateThreshold, t, F).db
  IN IF "Metric.findAll" \in F THEN db
     ELSE IF totalMetrics = 0 THEN db
     ELSE IF Above(errorMetrics, totalMetrics, row.errorRateThreshold)
          THEN IF Above(errorMetrics, totalMetrics,
                        row.errorRateThreshold * 2)
               THEN createIncident(db1, e, "High Error Rate", "HIGH", t, F).db
               ELSE db1
     ELSE db

checkAvailability(db, e, row, t, F) ==
  LET window == LastHour(db, e, t)
      totalMetrics == Cardinality(window)
      successMetrics == Cardinality({i \in window : db.metrics[i].success})
      db1 == createAlert(db, e, "AVAILABILITY",
                         Percent(successMetrics, totalMetrics),
                         row.availabilityThreshold, t, F).db
  IN IF "Metric.findAll" \in F THEN db
     ELSE IF totalMetrics = 0 THEN db
     ELSE IF Below(successMetrics, totalMetrics, row.availabilityThreshold)
          THEN IF Below(successMetrics, totalMetrics,
                        row.availabilityThreshold - 10)
               THEN createIncident(db1, e, "Low Availability", "HIGH", t, F).db
               ELSE db1
     ELSE db

\* checkThresholds alerting from the response time threshold on.
checkThresholdsAtLeast(db, e, row, metric, t, F) ==
  LET db1 == IF metric.responseTime >= row.responseTimeThreshold
             THEN createAlert(db, e, "RESPONSE_TIME", metric.responseTime,
                              row.responseTimeThreshold, t, F).db
             ELSE db
      db2 == IF ~metric.success
             THEN createAlert(db1, e, "STATUS_CODE", metric.statusCode,
                              StatusCodeThreshold, t, F).db
             ELSE db1
      db3 == checkErrorRate(db2, e, row, t, F)
  IN checkAvailability(db3, e, row, t, F)

checkThresholds(db, e, row, metric, t, F) ==
  LET db1 == IF metric.responseTime > row.responseTimeThreshold
             THEN createAlert(db, e, "RESPONSE_TIME", metric.responseTime,
                              row.responseTimeThreshold, t, F).db
             ELSE db
      db2 == IF ~metric.success
             THEN createAlert(db1, e, "STATUS_CODE", metric.statusCode,
                              StatusCodeThreshold, t, F).db
             ELSE db1
      db3 == checkErrorRate(db2, e, row, t, F)
  IN checkAvailability(db3, e, row, t, F)

\* The catch block of collectEndpointMetrics: the metric object keeps the
\* response time and the metaData it already has, statusCode becomes
\* error.response?.status || 0, and the Metric insert is attempted (again).
ProbeCatchNoInsert(db, e, responseTime, metaData, t, cycle, F) ==
  IF "Metric.create.catch" \in F
  THEN [db |-> db, settled |-> "rejected"]
  ELSE [db |-> createIncidentFromError(db, e, NULL, t, F).db,
        settled |-> "fulfilled"]

ProbeCatch(db, e, responseTime, metaData, t, cycle, F) ==
  LET metric == [MetricRow(e, t, FALSE, 0, responseTime, TRUE, cycle)
                   EXCEPT !.metaData = metaData]
      db1 == [db EXCEPT !.metrics = Append(@, metric)]
  IN IF "Metric.create.catch" \in F
     THEN [db |-> db, settled |-> "rejected"]
     ELSE [db |-> createIncidentFromError(db1, e, NULL, t, F).db,
           settled |-> "fulfilled"]

\* collectEndpointMetrics evaluating the thresholds before it persists the
\* Metric.
collectEndpointMetricsEvalFirst(db, e, row, resp, t, cycle, F) ==
  LET success == resp.status >= 200 /\ resp.status < 400
      metric == [MetricRow(e, t, success, resp.status, resp.responseTime,
                           FALSE, cycle)
                   EXCEPT !.metaData = MetaDataOf(resp)]
      db1 == checkThresholds(db, e, row, metric, t, F)
  IN IF resp.kind = "error"
     THEN ProbeCatch(db, e, NULL, NoMetaData, t, cycle, F)
     ELSE IF "Metric.create" \in F
     THEN ProbeCatch(db, e, resp.responseTime, MetaDataOf(resp), t, cycle, F)
     ELSE [db |-> [db1 EXCEPT !.metrics = Append(@, metric)],
           settled |-> "fulfilled"]

collectEndpointMetrics(db, e, row, resp, t, cycle, F) ==
  LET success == resp.status >= 200 /\ resp.status < 400
      metric == [MetricRow(e, t, success, resp.status, resp.responseTime,
                           FALSE, cycle)
                   EXCEPT !.metaData = MetaDataOf(resp)]
      db1 == [db EXCEPT !.metrics = Append(@, metric)]
  IN IF resp.kind = "error"
     THEN ProbeCatch(db, e, NULL, NoMetaData, t, cycle, F)
     ELSE IF "Metric.create" \in F
     THEN ProbeCatch(db, e, resp.responseTime, MetaDataOf(resp), t, cycle, F)
     ELSE [db |-> checkThresholds(db1, e, row, metric, t, F),
           settled |-> "fulfilled"]

---------------------------------------------------------------------------
(***************************************************************************)
(* Controllers: status updates.  Each returns the store it leaves and the  *)
(* HTTP status of the response (500 = the error went to next(error)).      *)
(***************************************************************************)
IncidentStatuses == {"OPEN", "ACKNOWLEDGED", "RESOLVED"}
AlertStatuses == {"NEW", "ACKNOWLEDGED", "RESOLVED"}

\* The place of a status in the order of its ENUM.
StatusRank(status) ==
  CASE status \in {"NEW", "OPEN"} -> 1
    [] status = "ACKNOWLEDGED" -> 2
    [] status = "RESOLVED" -> 3

\* Request bodies of PATCH /api/incidents/:id/status: resolution, resolvedBy.
Bodies == { [resolution |-> "null", resolvedBy |-> "null"],
            [resolution |-> "fixed", resolvedBy |-> "alice"] }

\* updateIncidentStatus without the Alert.update of its RESOLVED branch.
updateIncidentStatusNoCascade(db, id, status, body, t, F) ==
  LET incident == db.incidents[id]
      saved == IF status = "RESOLVED"
               THEN [incident EXCEPT
                       !.status = status,
                       !.resolution = IF body.resolution = "null"
                                      THEN "Resolved without details"
                                      ELSE body.resolution,
                       !.resolvedBy = IF body.resolvedBy = "null"
                                      THEN "System" ELSE body.resolvedBy,
                       !.endTime = t]
               ELSE [incident EXCEPT !.status = status]
  IN IF status \notin IncidentStatuses THEN [db |-> db, http |-> 400]
     ELSE IF "Incident.findByPk" \in F THEN [db |-> db, http |-> 500]
     ELSE IF id \notin DOMAIN db.incidents THEN [db |-> db, http |-> 404]
     ELSE IF "incident.save" \in F THEN [db |-> db, http |-> 500]
     ELSE [db |-> [db EXCEPT !.incidents[id] = saved], http |-> 200]

updateIncidentStatus(db, id, status, body, t, F) ==
  LET incident == db.incidents[id]
      saved == IF status = "RESOLVED"
               THEN [incident EXCEPT
                       !.status = status,
                       !.resolution = IF body.resolution = "null"
                                      THEN "Resolved without details"
                                      ELSE body.resolution,
                       !.resolvedBy = IF body.resolvedBy = "null"
                                      THEN "System" ELSE body.resolvedBy,
                       !.endTime = t]
               ELSE [incident EXCEPT !.status = status]
      db1 == [db EXCEPT !.incidents[id] = saved]
      linked == {i \in DOMAIN db.alerts : db.alerts[i].incidentId = id}
  IN IF status \notin IncidentStatuses THEN [db |-> db, http |-> 400]
     ELSE IF "Incident.findByPk" \in F THEN [db |-> db, http |-> 500]
     ELSE IF id \notin DOMAIN db.incidents THEN [db |-> db, http |-> 404]
     ELSE IF "incident.save" \in F THEN [db |-> db, http |-> 500]
     ELSE IF status # "RESOLVED" THEN [db |-> db1, http |-> 200]
     ELSE IF "Alert.update" \in F THEN [db |-> db1, http |-> 500]
     ELSE [db |-> [db1 EXCEPT !.alerts = updateAll(@, linked, "RESOLVED")],
           http |-> 200]

updateAlertStatus(db, id, status, t, F) ==
  LET alert == db.alerts[id]
      saved == IF status = "ACKNOWLEDGED"
               THEN [alert EXCEPT !.status = status, !.acknowledgedAt = t,
                                  !.acknowledgedBy = "System"]
               ELSE [alert EXCEPT !.status = status]
  IN IF status \notin AlertStatuses THEN [db |-> db, http |-> 400]
     ELSE IF "Alert.findByPk" \in F THEN [db |-> db, http |-> 500]
     ELSE IF id \notin DOMAIN db.alerts THEN [db |-> db, http |-> 404]
     ELSE IF "alert.save" \in F THEN [db |-> db, http |-> 500]
     ELSE [db |-> [db EXCEPT !.alerts[id] = saved], http |-> 200]

---------------------------------------------------------------------------
(***************************************************************************)
(* monitorService: the health score.  The doubles of the computation are   *)
(* kept as exact fractions <<numerator, denominator>>.                     *)
(***************************************************************************)
RECURSIVE Gcd(_, _)
Gcd(a, b) == IF b = 0 THEN a ELSE Gcd(b, a % b)

\* The quotient p / q in lowest terms, 0 <= p and 0 < q.
Frac(p, q) == <<p \div Gcd(p, q), q \div Gcd(p, q)>>
Plus(f, g) == Frac(f[1] * g[2] + g[1] * f[2], f[2] * g[2])

\* A ratio that is used as it is.
Uncapped(f) == f

\* Math.min(1, ratio)
Capped(f) == IF f[1] >= f[2] THEN <<1, 1>> ELSE f

\* Math.round of a fraction that is not negative.
Round(f) == (2 * f[1] + f[2]) \div (2 * f[2])

\* m.responseTime || 0
ResponseTimeOf(m) == IF m.responseTime = NULL THEN 0 ELSE m.responseTime

\* reduce((sum, m) => sum + (m.responseTime || 0), 0) over the rows S.
RECURSIVE SumResponseTime(_, _)
SumResponseTime(table, S) ==
  IF S = {} THEN 0
  ELSE LET i == Min(S)
       IN ResponseTimeOf(table[i]) + SumResponseTime(table, S \ {i})

\* The sum of the squares of count * value - sum over the rows S: count
\* squared times the sum of the squared differences from the average.
RECURSIVE SumSquareDiffs(_, _, _, _)
SumSquareDiffs(table, S, count, sum) ==
  IF S = {} THEN 0
  ELSE LET i == Min(S)
           diff == count * ResponseTimeOf(table[i]) - sum
       IN diff * diff + SumSquareDiffs(table, S \ {i}, count, sum)

\* Math.sqrt(avgSquareDiff) of the response times above 0 of the rows S, for
\* rows whose deviation is a whole number; NULL stands for NaN, the deviation
\* of no rows.
StdDeviation(table, S) ==
  LET count == Cardinality(S)
      sum == SumResponseTime(table, S)
      avgSquareDiff ==
        SumSquareDiffs(table, S, count, sum) \div (count * count * count)
  IN IF count = 0 THEN NULL
     ELSE CHOOSE r \in 0..1000 : r * r = avgSquareDiff

\* calculateEndpointHealthScore(endpointId) at time t for the Endpoint row
\* row: the score, NULL for null.
calculateEndpointHealthScore(db, e, row, t) ==
  LET window == {i \in DOMAIN db.metrics :
                   /\ db.metrics[i].endpointId = e
                   /\ db.metrics[i].timestamp >= t - DayTicks}
      length == Cardinality(window)
      successfulRequests ==
        Cardinality({i \in window : db.metrics[i].success})
      availabilityScore == Frac(successfulRequests * 40, length)
      sum == SumResponseTime(db.metrics, window)
      responseTimeRatio ==
        Capped(IF sum = 0 THEN Frac(row.responseTimeThreshold, 1)
               ELSE Frac(row.responseTimeThreshold * length, sum))
      errorRateRatio ==
        Capped(IF successfulRequests = length
               THEN Frac(row.errorRateThreshold * 10, 1)
               ELSE Frac(row.errorRateThreshold * length,
                         (length - successfulRequests) * 100))
      responseTimeValues ==
        {i \in window : ResponseTimeOf(db.metrics[i]) > 0}
      stdDeviation == StdDeviation(db.metrics, responseTimeValues)
      variabilityRatio ==
        Capped(IF stdDeviation = NULL \/ stdDeviation = 0 THEN Frac(100, 1)
               ELSE Frac(100, stdDeviation))
  IN IF length = 0 THEN NULL
     ELSE Round(Plus(Plus(availabilityScore,
                          Frac(30 * responseTimeRatio[1],
                               responseTimeRatio[2])),
                     Plus(Frac(20 * errorRateRatio[1], errorRateRatio[2]),
                          Frac(10 * variabilityRatio[1],
                               variabilityRatio[2]))))

---------------------------------------------------------------------------
(***************************************************************************)
(* Time ranges.  A string is the sequence of its characters.               *)
(***************************************************************************)
\* timeRange.match(/^(\d+)([hdwmy])$/) is not null.
Matches(s) ==
  /\ Len(s) >= 2
  /\ \A i \in 1..(Len(s) - 1) :
       s[i] \in {"0", "1", "2", "3", "4", "5", "6", "7", "8", "9"}
  /\ s[Len(s)] \in {"h", "d", "w", "m", "y"}

\* parseInt of a string of digits.
RECURSIVE parseInt(_)
parseInt(s) ==
  LET digits == <<"0", "1", "2", "3", "4", "5", "6", "7", "8", "9">>
      c == s[Len(s)]
  IN IF s = <<>> THEN 0
     ELSE 10 * parseInt(SubSeq(s, 1, Len(s) - 1))
          + (CHOOSE d \in 0..9 : digits[d + 1] = c)

\* parseTimeRange of the helpers: the length of the range (in ticks in the
\* place of milliseconds), ok = FALSE where it throws.
parseTimeRange(s) ==
  LET value == parseInt(SubSeq(s, 1, Len(s) - 1))
      unit == s[Len(s)]
  IN IF ~Matches(s) THEN [ok |-> FALSE, length |-> 0]
     ELSE [ok |-> TRUE,
           length |-> CASE unit = "h" -> value * HourTicks
                        [] unit = "d" -> value * DayTicks
                        [] unit = "w" -> value * 7 * DayTicks
                        [] unit = "m" -> value * 30 * DayTicks
                        [] unit = "y" -> value * 365 * DayTicks]

\* The calendar of the host, as far as moment().subtract reads it: shift is
\* the offset from UTC now less the offset at the start of the range (an
\* hour either way across a change of daylight saving time, 0 otherwise),
\* month and year the days of the last month and of the last year.
Calendars == [shift : {0 - HourTicks, 0, HourTicks}, month : {28, 30, 31},
              year : {365, 366}]

\* moment().subtract(value, timeUnit) at time t, for one month or one year
\* at most.  Hours are subtracted on the time line; days, weeks, months and
\* years on the calendar of the host, keeping the local time of day.
momentSubtract(t, value, unit, cal) ==
  CASE unit = "h" -> t - value * HourTicks
    [] unit = "d" -> t - value * DayTicks + cal.shift
    [] unit = "w" -> t - value * 7 * DayTicks + cal.shift
    [] unit = "m" -> t - value * cal.month * DayTicks + cal.shift
    [] unit = "y" -> t - value * cal.year * DayTicks + cal.shift

\* A change of daylight saving time lies inside a range of days only.
CanObserve(s, cal) ==
  cal.shift # 0
  => /\ Matches(s)
     /\ s[Len(s)] # "h"
     /\ parseInt(SubSeq(s, 1, Len(s) - 1)) > 0

\* The head of monitorService.getEndpointMetrics and of the controller's
\* getMetricsSummary: parse the range, compute the start, then go to the
\* store.  reads: the store was queried.
rangeStart(s, t, cal) ==
  IF ~Matches(s) THEN [ok |-> FALSE, start |-> 0, reads |-> FALSE]
  ELSE [ok |-> TRUE,
        start |-> momentSubtract(t, parseInt(SubSeq(s, 1, Len(s) - 1)),
                                 s[Len(s)], cal),
        reads |-> TRUE]

---------------------------------------------------------------------------
(***************************************************************************)
(* securityMonitorService: the four checks of one endpoint.  Each returns  *)
(* the store it leaves and ok: FALSE when an error leaves the method.      *)
(***************************************************************************)
SecurityTypes == {"RATE_LIMIT", "AUTH_FAILURE", "SENSITIVE_DATA",
                  "VULNERABILITY"}
SecurityAlertStatuses == {"NEW", "ACKNOWLEDGED", "RESOLVED", "FALSE_POSITIVE"}

\* Store calls of the checks that can fail: <<check, call>>.
ScanSites == SecurityTypes \X {"findAll", "findOne", "create"}

\* SecurityAlert.create: status defaults to NEW, timestamp to now.
SecurityAlertRow(e, type, severity, t) ==
  [endpointId |-> e, type |-> type, severity |-> severity, timestamp |-> t,
   status |-> "NEW", resolvedBy |-> "null", resolvedAt |-> NULL]

\* The where clause of the lookups: a non-RESOLVED alert of the type for the
\* endpoint, no older than since.
SimilarSecurityAlert(a, e, type, since) ==
  /\ a.endpointId = e
  /\ a.type = type
  /\ a.status # "RESOLVED"
  /\ a.timestamp >= since

\* SecurityAlert.findOne for a similar alert, SecurityAlert.create when there
\* is none.
RaiseUnlessExisting(db, e, type, severity, since, t, F) ==
  LET existingAlert ==
        findOne({i \in DOMAIN db.securityAlerts :
                   SimilarSecurityAlert(db.securityAlerts[i], e, type, since)})
  IN IF <<type, "findOne">> \in F THEN [db |-> db, ok |-> FALSE]
     ELSE IF existingAlert # 0 THEN [db |-> db, ok |-> TRUE]
     ELSE IF <<type, "create">> \in F THEN [db |-> db, ok |-> FALSE]
     ELSE [db |-> [db EXCEPT !.securityAlerts =
                      Append(@, SecurityAlertRow(e, type, severity, t))],
           ok |-> TRUE]

\* A check whose error leaves the method.
Rethrown(res) == res

\* The catch block of a check: the error is logged.
Caught(res) == [res EXCEPT !.ok = TRUE]

\* groups is the answer of the grouped query: the number of Metrics of each
\* calendar minute of the last five, oldest first.  The loop looks up and
\* creates for every minute above the threshold: the first one creates (with
\* its own count deciding the severity) unless a similar alert exists, and
\* the later ones find that alert.
detectRateLimiting(db, e, groups, t, F) ==
  LET over == {i \in DOMAIN groups : groups[i] > RateThreshold}
      count == groups[Min(over)]
  IN Caught(IF <<"RATE_LIMIT", "findAll">> \in F
            THEN [db |-> db, ok |-> FALSE]
            ELSE IF over = {} THEN [db |-> db, ok |-> TRUE]
            ELSE RaiseUnlessExisting(db, e, "RATE_LIMIT",
                                     IF count > RateThreshold * 2
                                     THEN "HIGH" ELSE "MEDIUM",
                                     t - HourTicks, t, F))

\* monitorAuthFailures raising from more than the threshold on.
monitorAuthFailuresAbove(db, e, t, F) ==
  LET authFailures ==
        {i \in DOMAIN db.metrics :
           /\ db.metrics[i].endpointId = e
           /\ db.metrics[i].timestamp >= t - DayTicks
           /\ db.metrics[i].statusCode \in {401, 403}}
      length == Cardinality(authFailures)
  IN Caught(IF <<"AUTH_FAILURE", "findAll">> \in F
            THEN [db |-> db, ok |-> FALSE]
            ELSE IF length > AuthThreshold
            THEN RaiseUnlessExisting(db, e, "AUTH_FAILURE",
                                     IF length > AuthHigh
                                     THEN "HIGH" ELSE "MEDIUM",
                                     t - DayTicks, t, F)
            ELSE [db |-> db, ok |-> TRUE])

monitorAuthFailures(db, e, t, F) ==
  LET authFailures ==
        {i \in DOMAIN db.metrics :
           /\ db.metrics[i].endpointId = e
           /\ db.metrics[i].timestamp >= t - DayTicks
           /\ db.metrics[i].statusCode \in {401, 403}}
      length == Cardinality(authFailures)
  IN Caught(IF <<"AUTH_FAILURE", "findAll">> \in F
            THEN [db |-> db, ok |-> FALSE]
            ELSE IF length >= AuthThreshold
            THEN RaiseUnlessExisting(db, e, "AUTH_FAILURE",
                                     IF length > AuthHigh
                                     THEN "HIGH" ELSE "MEDIUM",
                                     t - DayTicks, t, F)
            ELSE [db |-> db, ok |-> TRUE])

\* Metrics of the last hour of an endpoint whose metaData is not null: what
\* the queries of scanSensitiveData and vulnerabilityScan select from.
WithMetaData(db, e, t) ==
  {i \in DOMAIN db.metrics :
     db.metrics[i].endpointId = e /\ db.metrics[i].timestamp >= t - HourTicks}

\* A query with a limit and no order returns any limit rows of the window
\* (all of them when they are fewer).  held = TRUE: the answer can hold a row
\* of hits; held = FALSE: it can hold none.
CanReturn(window, hits, limit, held) ==
  IF held THEN hits # {}
  ELSE Cardinality(window \ hits) >= Min({limit, Cardinality(window)})

\* held: the query returned a Metric with a match.  Every such Metric is
\* looked up for: the first creates unless a similar alert exists.
scanSensitiveData(db, e, held, t, F) ==
  Caught(IF <<"SENSITIVE_DATA", "findAll">> \in F
         THEN [db |-> db, ok |-> FALSE]
         ELSE IF held
         THEN RaiseUnlessExisting(db, e, "SENSITIVE_DATA", "HIGH",
                                  t - HourTicks, t, F)
         ELSE [db |-> db, ok |-> TRUE])

\* held: the query returned a Metric with three or more headers missing; the
\* loop breaks at the first one.
vulnerabilityScan(db, e, held, t, F) ==
  Caught(IF <<"VULNERABILITY", "findAll">> \in F
         THEN [db |-> db, ok |-> FALSE]
         ELSE IF held
         THEN RaiseUnlessExisting(db, e, "VULNERABILITY", "MEDIUM",
                                  t - HourTicks, t, F)
         ELSE [db |-> db, ok |-> TRUE])

\* The body of the loop of performSecurityScan: the four checks of one
\* endpoint, one after the other; checked are the checks that were called.
\* in: groups, and held for the two limited queries.
ScanChecks(db, e, in, t, F) ==
  LET r1 == detectRateLimiting(db, e, in.groups, t, F)
      r2 == IF r1.ok THEN monitorAuthFailures(r1.db, e, t, F) ELSE r1
      r3 == IF r2.ok THEN scanSensitiveData(r2.db, e, in.data, t, F) ELSE r2
      r4 == IF r3.ok THEN vulnerabilityScan(r3.db, e, in.vuln, t, F) ELSE r3
  IN [db |-> r4.db, ok |-> r4.ok,
      checked |-> {"RATE_LIMIT"}
                  \cup (IF r1.ok THEN {"AUTH_FAILURE"} ELSE {})
                  \cup (IF r2.ok THEN {"SENSITIVE_DATA"} ELSE {})
                  \cup (IF r3.ok THEN {"VULNERABILITY"} ELSE {})]

\* What one endpoint can show to a scan of the store db at time t.
\* sensitive: the Metrics whose metaData.responseData matches a detector;
\* unprotected: those whose metaData.headers lack three security headers or
\* more.
CanShow(db, e, in, t) ==
  LET sensitive ==
        {i \in WithMetaData(db, e, t) :
           /\ "responseData" \in DOMAIN db.metrics[i].metaData
           /\ db.metrics[i].metaData.responseData.secret}
      unprotected ==
        {i \in WithMetaData(db, e, t) :
           /\ "headers" \in DOMAIN db.metrics[i].metaData
           /\ db.metrics[i].metaData.headers.missing >= HeaderThreshold}
  IN /\ CanReturn(WithMetaData(db, e, t), sensitive, SensitiveLimit,
                  in.data)
     /\ CanReturn(WithMetaData(db, e, t), unprotected, VulnerabilityLimit,
                  in.vuln)

\* securityMonitorService.updateAlertStatus(alertId, status, resolvedBy): no
\* test of the status.  enforced: the store rejects a value outside the ENUM
\* of the column; otherwise it keeps the value.
serviceUpdateAlertStatus(db, id, status, resolvedBy, t, enforced, F) ==
  LET alert == db.securityAlerts[id]
      saved == IF status = "RESOLVED"
               THEN [alert EXCEPT !.status = status,
                                  !.resolvedBy = resolvedBy,
                                  !.resolvedAt = t]
               ELSE [alert EXCEPT !.status = status]
  IN IF "SecurityAlert.findByPk" \in F THEN [db |-> db, ok |-> FALSE]
     ELSE IF id \notin DOMAIN db.securityAlerts THEN [db |-> db, ok |-> FALSE]
     ELSE IF "alert.save" \in F THEN [db |-> db, ok |-> FALSE]
     ELSE IF status \notin SecurityAlertStatuses /\ enforced
     THEN [db |-> db, ok |-> FALSE]
     ELSE [db |-> [db EXCEPT !.securityAlerts[id] = saved], ok |-> TRUE]

\* PATCH /api/security/alerts/:id/status
updateSecurityAlertStatus(db, id, status, t, enforced, F) ==
  LET res == serviceUpdateAlertStatus(db, id, status, "System", t,
                                      enforced, F)
  IN IF status \notin SecurityAlertStatuses THEN [db |-> db, http |-> 400]
     ELSE [db |-> res.db, http |-> IF res.ok THEN 200 ELSE 500]

---------------------------------------------------------------------------
(***************************************************************************)
(* State of the scheduler.                                                 *)
(***************************************************************************)
Calls == 1..MaxCalls

\* A cycle run: pending are the endpoints of the snapshot yet to settle,
\* rejected those whose promise Promise.allSettled saw rejected.
\* A start() call: pc is "free" (no call), "load" (monitorService.start
\* awaiting loadEndpoints) or "wait" (awaiting the initial collection or scan).
\* zero and failed are history: the store held no active endpoint during the
\* whole call; a read of the endpoint list failed during the call.
FreeCall == [svc |-> "none", pc |-> "free", zero |-> FALSE]

\* What a scan is shown when there is nothing to find: no minute with
\* Metrics, no match in the answers of the limited queries.
Quiet == [groups |-> <<>>, data |-> FALSE, vuln |-> FALSE]

\* The last step: the operation, the service call that returned in it (api)
\* and what it returned.
NoLast == [op |-> "init", svc |-> "none", api |-> "none", ret |-> "none",
           cycle |-> 0, e |-> 0, type |-> "none", id |-> 0,
           status |-> "none", http |-> 0,
           settled |-> "none", kind |-> "none", fails |-> {},
           snapshot |-> {}, rejected |-> {}, zero |-> FALSE,
           failed |-> FALSE, running |-> FALSE,
           input |-> Quiet, down |-> {}, checked |-> {}, enforced |-> FALSE,
           score |-> NULL, range |-> <<>>, start |-> 0, reads |-> FALSE,
           deleted |-> 0]

\* The keys of the dedup of createAlert, and the history kept for each: when
\* createAlert was last called for the key (at), the id it returned (ret),
\* and whether since then an Alert was set to RESOLVED or had its status
\* updated at all.
AlertTypes == {"RESPONSE_TIME", "ERROR_RATE", "AVAILABILITY", "STATUS_CODE",
               "OTHER"}
Keys == Endpoints \X AlertTypes
NoCall == [at |-> NULL, ret |-> 0, resolved |-> FALSE, updated |-> FALSE]

\* The Alert rows of a key.
KeyOf(a) == <<a.endpointId, a.type>>

\* The history after the statuses of the Alert table went from their present
\* values to those of table.
Touch(table) ==
  [k \in Keys |->
     LET Mine == {i \in DOMAIN alerts : KeyOf(alerts[i]) = k} IN
     IF prev[k].at = NULL THEN prev[k]
     ELSE [prev[k] EXCEPT
             !.updated = @ \/ \E i \in Mine :
                                table[i].status # alerts[i].status,
             !.resolved = @ \/ \E i \in Mine :
                                 /\ alerts[i].status # "RESOLVED"
                                 /\ table[i].status = "RESOLVED"]]

InFlight == {c \in Calls : calls[c].pc # "free"}
\* Calls that have yet to begin their initial collection.
Loading == {c \in Calls : calls[c].pc = "load"}

NewRun(s, owner) ==
  [id |-> cycles + 1, svc |-> s, owner |-> owner, pc |-> "load",
   pending |-> {}, snapshot |-> {}, rejected |-> {}, checked |-> {},
   down |-> {}, sent |-> 0]

\* Room for one more cycle run and one more timer within the bounds.
CanBegin == cycles + Cardinality(Loading) + 1 <= MaxCycles
CanArm == nextTimer + Cardinality(InFlight) <= MaxTimers

\* The state after construction over a store that holds the Metric rows of
\* table.
InitOver(table) ==
  /\ now = 0
  /\ metrics = table
  /\ securityAlerts = <<>>
  /\ alerts = <<>>
  /\ incidents = <<>>
  /\ isRunning = [s \in Svc |-> FALSE]
  /\ armed = [s \in Svc |-> {}]
  /\ handle = [s \in Svc |-> 0]
  /\ nextTimer = 1
  /\ endpoints = {}
  /\ calls = [c \in Calls |-> FreeCall]
  /\ runs = {}
  /\ cycles = 0
  /\ ops = 0
  /\ prev = [k \in Keys |-> NoCall]
  /\ stopped = [s \in Svc |-> FALSE]
  /\ last = NoLast

Init ==
  /\ active \in SUBSET Endpoints
  /\ InitOver(<<>>)

---------------------------------------------------------------------------
(***************************************************************************)
(* start() and stop() of the two services.                                 *)
(***************************************************************************)

\* start() without its guard.
NeverRunning(s) == FALSE

\* if (this.isRunning) return false
AlreadyRunning(s) == isRunning[s]

\* monitorService.start: if (this.endpoints.length === 0) return false.
\* securityMonitorService.start has no such test.
NoEndpoints(s, list) == s = "perf" /\ list = {}

\* start() without its catch block: the error reaches the caller.
StartNoCatch(s) == [ret |-> "throw", running |-> isRunning[s]]

\* The catch block of start(): what start() returns and the isRunning it
\* leaves.  Only securityMonitorService resets isRunning.
StartCatch(s) ==
  [ret |-> "false", running |-> IF s = "sec" THEN FALSE ELSE isRunning[s]]

\* clearInterval(this.monitoringInterval)
clearInterval(timers, h) == timers \ {h}

\* A call of start().  A service that is already running refuses at once.
\* monitorService awaits loadEndpoints first; securityMonitorService sets
\* isRunning and awaits its initial scan.
StartCall(c, s) ==
  /\ c \notin InFlight
  /\ \A d \in Calls \ InFlight : c <= d
  /\ stopped' = [stopped EXCEPT ![s] = FALSE]
  /\ IF AlreadyRunning(s)
     THEN /\ last' = [NoLast EXCEPT !.op = "start", !.svc = s,
                        !.api = "start", !.ret = "false", !.running = TRUE]
          /\ UNCHANGED <<calls, isRunning, runs, cycles>>
     ELSE /\ CanBegin
          /\ CanArm
          /\ last' = [NoLast EXCEPT !.op = "start", !.svc = s]
          /\ IF s = "perf"
             THEN /\ calls' = [calls EXCEPT ![c] =
                       [svc |-> s, pc |-> "load", zero |-> active = {}]]
                  /\ UNCHANGED <<isRunning, runs, cycles>>
             ELSE /\ calls' = [calls EXCEPT ![c] =
                       [svc |-> s, pc |-> "wait", zero |-> active = {}]]
                  /\ isRunning' = [isRunning EXCEPT ![s] = TRUE]
                  /\ runs' = runs \cup {NewRun(s, c)}
                  /\ cycles' = cycles + 1
  /\ UNCHANGED <<now, active, storeVars, armed, handle, nextTimer, endpoints,
                 ops, prev>>

\* monitorService.start after loadEndpoints settled (ok = the read worked).
StartLoaded(c, ok) ==
  LET s == calls[c].svc IN
  /\ calls[c].pc = "load"
  /\ IF ~ok
     THEN /\ calls' = [calls EXCEPT ![c] = FreeCall]
          /\ isRunning' = [isRunning EXCEPT ![s] = StartCatch(s).running]
          /\ last' = [NoLast EXCEPT !.op = "startLoaded", !.svc = s,
                        !.api = "start", !.ret = StartCatch(s).ret,
                        !.failed = TRUE, !.zero = calls[c].zero]
          /\ UNCHANGED <<endpoints, runs, cycles>>
     ELSE /\ endpoints' = active
          /\ IF NoEndpoints(s, active)
             THEN /\ calls' = [calls EXCEPT ![c] = FreeCall]
                  /\ last' = [NoLast EXCEPT !.op = "startLoaded", !.svc = s,
                                !.api = "start", !.ret = "false",
                                !.zero = calls[c].zero]
                  /\ UNCHANGED <<isRunning, runs, cycles>>
             ELSE /\ calls' = [calls EXCEPT ![c].pc = "wait"]
                  /\ isRunning' = [isRunning EXCEPT ![s] = TRUE]
                  /\ runs' = runs \cup {NewRun(s, c)}
                  /\ cycles' = cycles + 1
                  /\ last' = [NoLast EXCEPT !.op = "startLoaded", !.svc = s]
  /\ UNCHANGED <<now, active, storeVars, armed, handle, nextTimer, ops, prev,
                 stopped>>

Stop(s) ==
  /\ IF ~isRunning[s]
     THEN /\ last' = [NoLast EXCEPT !.op = "stop", !.svc = s,
                        !.api = "stop", !.ret = "false"]
          /\ UNCHANGED <<armed, isRunning, stopped>>
     ELSE /\ armed' = [armed EXCEPT ![s] = clearInterval(@, handle[s])]
          /\ isRunning' = [isRunning EXCEPT ![s] = FALSE]
          /\ stopped' = [stopped EXCEPT ![s] = TRUE]
          /\ last' = [NoLast EXCEPT !.op = "stop", !.svc = s,
                        !.api = "stop", !.ret = "true"]
  /\ UNCHANGED <<now, active, storeVars, handle, nextTimer, endpoints, calls,
                 runs, cycles, ops, prev>>

\* An armed interval timer fires; setInterval does not wait for the previous
\* callback to finish.
TimerFire(s, tm) ==
  /\ tm \in armed[s]
  /\ CanBegin
  /\ runs' = runs \cup {NewRun(s, 0)}
  /\ cycles' = cycles + 1
  /\ last' = [NoLast EXCEPT !.op = "fire", !.svc = s, !.cycle = cycles + 1]
  /\ UNCHANGED <<now, active, storeVars, isRunning, armed, handle, nextTimer,
                 endpoints, calls, ops, prev, stopped>>

---------------------------------------------------------------------------
(***************************************************************************)
(* A cycle run: collectAllMetrics (with the housekeeping of the timer      *)
(* callback) or performSecurityScan.  A run owned by a start() call is its *)
(* initial collection or scan; owner 0 is a timer callback.                *)
(***************************************************************************)
ThirtyDays == 30 * 24 * HourTicks

\* A purge of the Metrics that are 30 days old or older.
cleanupFromThirtyDays(table, t) ==
  SelectSeq(table, LAMBDA m : ~(m.timestamp <= t - ThirtyDays))

\* Metric.destroy where timestamp < cutoff.
cleanupOldMetrics(table, t) ==
  SelectSeq(table, LAMBDA m : ~(m.timestamp < t - ThirtyDays))

Replace(r, r2) == (runs \ {r}) \cup {r2}

\* A timer callback that clears its interval when the cycle throws.
CallbackDisarm(timers, h) == timers \ {h}

\* The catch block of the timer callback: the error is logged, the interval
\* timer is left as it is.
CallbackCatch(timers, h) == timers

\* The read of the active endpoints that opens a run settles.  A failed read
\* makes the run throw: start() catches it and returns, the timer callback
\* catches and logs it.
RunLoad(r, ok) ==
  LET s == r.svc
      c == r.owner IN
  /\ r \in runs
  /\ r.pc = "load"
  /\ IF ok
     THEN /\ runs' = Replace(r, [r EXCEPT !.pc = "work", !.pending = active,
                                          !.snapshot = active])
          /\ endpoints' = IF s = "perf" THEN active ELSE endpoints
          /\ last' = [NoLast EXCEPT !.op = "cycleLoad", !.svc = s,
                        !.cycle = r.id]
          /\ UNCHANGED <<calls, isRunning, armed>>
     ELSE /\ runs' = runs \ {r}
          /\ UNCHANGED endpoints
          /\ IF c = 0
             THEN /\ last' = [NoLast EXCEPT !.op = "cycleLoad", !.svc = s,
                                !.cycle = r.id, !.failed = TRUE]
                  /\ armed' = [armed EXCEPT ![s] =
                                 CallbackCatch(@, handle[s])]
                  /\ UNCHANGED <<calls, isRunning>>
             ELSE /\ UNCHANGED armed
                  /\ calls' = [calls EXCEPT ![c] = FreeCall]
                  /\ isRunning' = [isRunning EXCEPT ![s] =
                                     StartCatch(s).running]
                  /\ last' = [NoLast EXCEPT !.op = "cycleLoad", !.svc = s,
                                !.cycle = r.id, !.failed = TRUE,
                                !.api = "start", !.ret = StartCatch(s).ret,
                                !.zero = calls[c].zero]
  /\ UNCHANGED <<now, active, storeVars, handle, nextTimer, cycles,
                 ops, prev, stopped>>

\* A prober that repeats the request after a transport failure.
RequestsRetried(resp) == IF resp.kind = "error" THEN 2 ELSE 1

\* The HTTP requests of one collectEndpointMetrics call: the httpClient call
\* of the try block; the catch block issues none.
Requests(resp) == 1

\* One endpoint of a performance cycle is probed and evaluated.
Probe(r, e, resp, F) ==
  LET res == collectEndpointMetrics(Store, e, EndpointRow(e), resp, now,
                                    r.id, F) IN
  /\ r \in runs
  /\ r.svc = "perf"
  /\ r.pc = "work"
  /\ e \in r.pending
  /\ metrics' = res.db.metrics
  /\ alerts' = res.db.alerts
  /\ incidents' = res.db.incidents
  /\ runs' = Replace(r, [r EXCEPT
                            !.pending = @ \ {e},
                            !.sent = @ + Requests(resp),
                            !.rejected = IF res.settled = "rejected"
                                         THEN @ \cup {e} ELSE @])
  /\ last' = [NoLast EXCEPT !.op = "probe", !.svc = "perf", !.cycle = r.id,
                !.e = e, !.settled = res.settled, !.kind = resp.kind,
                !.fails = F]
  /\ UNCHANGED <<now, active, securityAlerts, isRunning, armed, handle,
                 nextTimer, endpoints, calls, cycles, ops, prev, stopped>>

\* One endpoint of a security scan: the loop body of performSecurityScan
\* takes the endpoints one after the other.
\* in is what the store shows to the checks, F the store calls that fail.
\* An error that leaves a check leaves the loop.
ScanEndpoint(r, in, F) ==
  LET e == Min(r.pending)
      res == ScanChecks(Store, e, in, now, F) IN
  /\ r \in runs
  /\ r.svc = "sec"
  /\ r.pc = "work"
  /\ r.pending # {}
  /\ CanShow(Store, e, in, now)
  /\ securityAlerts' = res.db.securityAlerts
  /\ runs' = Replace(r, [r EXCEPT
                            !.pending = IF res.ok THEN @ \ {e} ELSE {},
                            !.checked = @ \cup ({e} \X res.checked),
                            !.down = @ \cup F])
  /\ last' = [NoLast EXCEPT !.op = "scan", !.svc = "sec", !.cycle = r.id,
                !.e = e, !.input = in, !.down = F,
                !.checked = {e} \X res.checked]
  /\ UNCHANGED <<now, active, metrics, alerts, incidents, isRunning, armed,
                 handle, nextTimer, endpoints, calls, cycles, ops, prev,
                 stopped>>

\* Promise.all in the place of Promise.allSettled: the first rejection
\* settles the collection.
FirstRejection(r) == r.pending = {} \/ r.rejected # {}

\* await Promise.allSettled(metricsPromises): every probe has settled.
Settled(r) == r.pending = {}

\* Every endpoint of the run has settled.  start() arms the interval timer
\* and returns true; the timer callback of monitorService goes on to its
\* housekeeping (purge = the once-a-day test is true).
RunEnd(r, purge) ==
  LET s == r.svc
      c == r.owner IN
  /\ r \in runs
  /\ r.pc = "work"
  /\ Settled(r)
  /\ runs' = runs \ {r}
  /\ IF c # 0
     THEN /\ armed' = [armed EXCEPT ![s] = @ \cup {nextTimer}]
          /\ handle' = [handle EXCEPT ![s] = nextTimer]
          /\ nextTimer' = nextTimer + 1
          /\ calls' = [calls EXCEPT ![c] = FreeCall]
          /\ last' = [NoLast EXCEPT !.op = "cycleEnd", !.svc = s,
                        !.cycle = r.id, !.snapshot = r.snapshot,
                        !.rejected = r.rejected, !.checked = r.checked,
                        !.down = r.down, !.api = "start", !.ret = "true",
                        !.zero = calls[c].zero]
          /\ UNCHANGED metrics
     ELSE /\ metrics' = IF s = "perf" /\ purge
                        THEN cleanupOldMetrics(metrics, now) ELSE metrics
          /\ last' = [NoLast EXCEPT !.op = "cycleEnd", !.svc = s,
                        !.cycle = r.id, !.snapshot = r.snapshot,
                        !.rejected = r.rejected, !.checked = r.checked,
                        !.down = r.down]
          /\ UNCHANGED <<armed, handle, nextTimer, calls>>
  /\ UNCHANGED <<now, active, alerts, incidents, securityAlerts, isRunning,
                 endpoints, cycles,
                 ops, prev, stopped>>

---------------------------------------------------------------------------
(***************************************************************************)
(* The environment: the clock, and the routes of the controller.           *)
(***************************************************************************)
Tick ==
  /\ now < MaxTime
  /\ now' = now + 1
  /\ last' = [NoLast EXCEPT !.op = "tick"]
  /\ UNCHANGED <<active, storeVars, schedVars, ops, prev>>

\* PATCH /api/endpoints/:id/toggle: save the flipped flag, then reload the
\* registry cache.  outcome: "ok", "save" (the save fails) or "load" (the
\* reload fails).
ToggleEndpoint(e, outcome) ==
  LET flipped == IF e \in active THEN active \ {e} ELSE active \cup {e} IN
  /\ last' = [NoLast EXCEPT !.op = "toggle", !.e = e,
                !.http = IF outcome = "ok" THEN 200 ELSE 500]
  /\ IF outcome = "save"
     THEN UNCHANGED <<active, endpoints, calls>>
     ELSE /\ active' = flipped
          /\ endpoints' = IF outcome = "ok" THEN flipped ELSE endpoints
          /\ calls' = [c \in Calls |->
                         [calls[c] EXCEPT !.zero = @ /\ flipped = {}]]
  /\ UNCHANGED <<now, storeVars, isRunning, armed, handle, nextTimer, runs,
                 cycles, ops, prev, stopped>>

\* PATCH /api/endpoints/:id/toggle as far as its call of
\* monitorService.loadEndpoints, which it leaves in flight (a run without a
\* cycle, owner NULL).  ok = FALSE: the save fails and the error goes to
\* next(error).
ToggleSave(e, ok) ==
  LET flipped == IF e \in active THEN active \ {e} ELSE active \cup {e} IN
  /\ IF ok
     THEN /\ active' = flipped
          /\ runs' = runs \cup {[NewRun("perf", NULL) EXCEPT !.id = ops + 1]}
          /\ calls' = [c \in Calls |->
                         [calls[c] EXCEPT !.zero = @ /\ flipped = {}]]
          /\ last' = [NoLast EXCEPT !.op = "toggleSave", !.e = e]
     ELSE /\ last' = [NoLast EXCEPT !.op = "toggle", !.e = e, !.http = 500]
          /\ UNCHANGED <<active, runs, calls>>
  /\ ops' = ops + 1
  /\ UNCHANGED <<now, storeVars, isRunning, armed, handle, nextTimer,
                 endpoints, cycles, prev, stopped>>

\* The store answers the Endpoint.findAll of a loadEndpoints call in flight
\* with the rows that are active now (ok) or fails it: loadEndpoints
\* rethrows, the route answers 500, a cycle run ends as in RunLoad.
LoadRead(r, ok) ==
  /\ r \in runs
  /\ r.pc = "load"
  /\ IF ok
     THEN /\ runs' = Replace(r, [r EXCEPT !.pc = "read",
                                          !.snapshot = active])
          /\ last' = [NoLast EXCEPT !.op = "loadRead", !.svc = r.svc,
                        !.cycle = r.id, !.snapshot = active]
          /\ UNCHANGED <<now, active, storeVars, isRunning, armed, handle,
                         nextTimer, endpoints, calls, cycles, ops, prev,
                         stopped>>
     ELSE IF r.owner = NULL
          THEN /\ runs' = runs \ {r}
               /\ last' = [NoLast EXCEPT !.op = "toggle", !.http = 500,
                             !.failed = TRUE]
               /\ UNCHANGED <<now, active, storeVars, isRunning, armed,
                              handle, nextTimer, endpoints, calls, cycles,
                              ops, prev, stopped>>
          ELSE RunLoad(r, FALSE)

\* The continuation of a loadEndpoints call whose rows have arrived:
\* this.endpoints = <the rows>.  The route answers 200; collectAllMetrics
\* maps collectEndpointMetrics over the list.
LoadDone(r) ==
  /\ r \in runs
  /\ r.pc = "read"
  /\ endpoints' = IF r.svc = "perf" THEN r.snapshot ELSE endpoints
  /\ IF r.owner = NULL
     THEN /\ runs' = runs \ {r}
          /\ last' = [NoLast EXCEPT !.op = "toggle", !.http = 200,
                        !.snapshot = r.snapshot]
     ELSE /\ runs' = Replace(r, [r EXCEPT !.pc = "work",
                                          !.pending = r.snapshot])
          /\ last' = [NoLast EXCEPT !.op = "cycleLoad", !.svc = r.svc,
                        !.cycle = r.id, !.snapshot = r.snapshot]
  /\ UNCHANGED <<now, active, storeVars, isRunning, armed, handle, nextTimer,
                 calls, cycles, ops, prev, stopped>>

\* PATCH /api/incidents/:id/status
UpdateIncidentStatus(id, status, body, F) ==
  LET res == updateIncidentStatus(Store, id, status, body, now, F) IN
  /\ incidents' = res.db.incidents
  /\ alerts' = res.db.alerts
  /\ last' = [NoLast EXCEPT !.op = "updateIncidentStatus", !.id = id,
                !.status = status, !.http = res.http]
  /\ ops' = ops + 1
  /\ prev' = Touch(res.db.alerts)
  /\ UNCHANGED <<now, active, metrics, securityAlerts, schedVars>>

\* PATCH /api/alerts/:id/status
UpdateAlertStatus(id, status, F) ==
  LET res == updateAlertStatus(Store, id, status, now, F) IN
  /\ alerts' = res.db.alerts
  /\ last' = [NoLast EXCEPT !.op = "updateAlertStatus", !.id = id,
                !.status = status, !.http = res.http]
  /\ ops' = ops + 1
  /\ prev' = Touch(res.db.alerts)
  /\ UNCHANGED <<now, active, metrics, incidents, securityAlerts, schedVars>>

\* collectEndpointMetrics for one endpoint of the registry, the store up.
Collect(e, resp) ==
  LET res == collectEndpointMetrics(Store, e, EndpointRow(e), resp, now,
                                    0, {}) IN
  /\ e \in active
  /\ metrics' = res.db.metrics
  /\ alerts' = res.db.alerts
  /\ incidents' = res.db.incidents
  /\ last' = [NoLast EXCEPT !.op = "collect", !.e = e,
                !.settled = res.settled, !.kind = resp.kind]
  /\ ops' = ops + 1
  /\ UNCHANGED <<now, active, securityAlerts, schedVars, prev>>

\* PATCH /api/security/alerts/:id/status
UpdateSecurityAlertStatus(id, status, enforced, F) ==
  LET res == updateSecurityAlertStatus(Store, id, status, now, enforced, F) IN
  /\ securityAlerts' = res.db.securityAlerts
  /\ last' = [NoLast EXCEPT !.op = "updateSecurityAlertStatus", !.id = id,
                !.status = status, !.http = res.http,
                !.enforced = enforced]
  /\ ops' = ops + 1
  /\ UNCHANGED <<now, active, metrics, alerts, incidents, schedVars, prev>>

\* A call of securityMonitorService.updateAlertStatus from the service layer.
ServiceUpdateAlertStatus(id, status, enforced, F) ==
  LET res == serviceUpdateAlertStatus(Store, id, status, "System", now,
                                      enforced, F) IN
  /\ securityAlerts' = res.db.securityAlerts
  /\ last' = [NoLast EXCEPT !.op = "serviceUpdateAlertStatus", !.id = id,
                !.status = status, !.ret = IF res.ok THEN "alert" ELSE "throw",
                !.enforced = enforced]
  /\ ops' = ops + 1
  /\ UNCHANGED <<now, active, metrics, alerts, incidents, schedVars, prev>>

\* A call of monitorService.calculateEndpointHealthScore.
HealthScore(e) ==
  /\ last' = [NoLast EXCEPT
                !.op = "healthScore", !.e = e,
                !.score = calculateEndpointHealthScore(Store, e,
                                                       EndpointRow(e), now)]
  /\ UNCHANGED <<now, active, storeVars, schedVars, ops, prev>>

\* A call of the helper parseTimeRange, the start of the range taken from
\* its length.
ParseTimeRange(s) ==
  LET res == parseTimeRange(s) IN
  /\ last' = [NoLast EXCEPT !.op = "parseTimeRange", !.range = s,
                !.ret = IF res.ok THEN "length" ELSE "throw",
                !.start = now - res.length]
  /\ UNCHANGED <<now, active, storeVars, schedVars, ops, prev>>

\* A call of monitorService.getEndpointMetrics(endpointId, timeRange).
GetEndpointMetrics(e, s, cal) ==
  LET res == rangeStart(s, now, cal) IN
  /\ CanObserve(s, cal)
  /\ last' = [NoLast EXCEPT !.op = "getEndpointMetrics", !.e = e,
                !.range = s, !.ret = IF res.ok THEN "metrics" ELSE "throw",
                !.start = res.start, !.reads = res.reads]
  /\ UNCHANGED <<now, active, storeVars, schedVars, ops, prev>>

\* GET /api/metrics/summary?timeRange=
GetMetricsSummary(s, cal) ==
  LET res == rangeStart(s, now, cal) IN
  /\ CanObserve(s, cal)
  /\ last' = [NoLast EXCEPT !.op = "getMetricsSummary", !.range = s,
                !.http = IF res.ok THEN 200 ELSE 400,
                !.ret = IF res.ok THEN "summary" ELSE "invalid",
                !.start = res.start, !.reads = res.reads]
  /\ UNCHANGED <<now, active, storeVars, schedVars, ops, prev>>

\* A call of monitorService.cleanupOldMetrics, as the timer callback makes
\* it once a day; ok = FALSE: Metric.destroy fails, the catch block returns
\* 0.
CleanupOldMetrics(ok) ==
  /\ metrics' = IF ok THEN cleanupOldMetrics(metrics, now) ELSE metrics
  /\ last' = [NoLast EXCEPT !.op = "cleanupOldMetrics",
                !.deleted = Len(metrics) - Len(metrics'),
                !.failed = ~ok]
  /\ ops' = ops + 1
  /\ UNCHANGED <<now, active, alerts, incidents, securityAlerts, schedVars,
                 prev>>

\* The rows of a table that do not belong to endpoint e: what ON DELETE
\* CASCADE of the foreign key endpointId leaves.
Without(table, e) == SelectSeq(table, LAMBDA row : row.endpointId # e)

\* DELETE /api/endpoints/:id: endpoint.destroy(), which the store cascades
\* to the rows of the endpoint, then the reload of the registry cache.
\* outcome: "ok", "destroy" (the destroy fails) or "load" (the reload
\* fails).  The endpoint has no Incident, so that no Alert of another
\* endpoint refers to a row that moves.
DeleteEndpoint(e, outcome) ==
  /\ \A i \in DOMAIN incidents : incidents[i].endpointId # e
  /\ last' = [NoLast EXCEPT !.op = "deleteEndpoint", !.e = e,
                !.http = IF outcome = "ok" THEN 200 ELSE 500]
  /\ IF outcome = "destroy"
     THEN UNCHANGED <<active, storeVars, endpoints>>
     ELSE /\ active' = active \ {e}
          /\ metrics' = Without(metrics, e)
          /\ alerts' = Without(alerts, e)
          /\ incidents' = incidents
          /\ securityAlerts' = Without(securityAlerts, e)
          /\ endpoints' = IF outcome = "ok" THEN active \ {e} ELSE endpoints
  /\ ops' = ops + 1
  /\ UNCHANGED <<now, isRunning, armed, handle, nextTimer, calls, runs,
                 cycles, prev, stopped>>

\* A call of monitorService.createAlert, as checkThresholds makes it.
CreateAlert(e, type, value, threshold, F) ==
  LET res == createAlert(Store, e, type, value, threshold, now, F) IN
  /\ alerts' = res.db.alerts
  /\ last' = [NoLast EXCEPT !.op = "createAlert", !.e = e, !.type = type,
                !.id = res.ret]
  /\ ops' = ops + 1
  /\ prev' = [prev EXCEPT ![<<e, type>>] =
               [at |-> now, ret |-> res.ret, resolved |-> FALSE,
                updated |-> FALSE]]
  /\ UNCHANGED <<now, active, metrics, incidents, securityAlerts, schedVars>>

\* A call of monitorService.createIncident, as the escalations make it.
CreateIncident(e, title, severity, F) ==
  LET res == createIncident(Store, e, title, severity, now, F) IN
  /\ alerts' = res.db.alerts
  /\ incidents' = res.db.incidents
  /\ last' = [NoLast EXCEPT !.op = "createIncident", !.e = e,
                !.id = res.ret, !.fails = F]
  /\ ops' = ops + 1
  /\ UNCHANGED <<now, active, metrics, securityAlerts, schedVars, prev>>

---------------------------------------------------------------------------
(***************************************************************************)
(* Specifications.                                                         *)
(***************************************************************************)
FastOk == [kind |-> "response", status |-> 200, responseTime |-> 100,
           headers |-> Hardened]

\* The service has not been started since construction.
Idle(s) ==
  /\ handle[s] = 0
  /\ ~isRunning[s]
  /\ \A c \in Calls : calls[c].svc # s
  /\ \A r \in runs : r.svc # s

\* The scheduler of the two services over a registry of one endpoint; every
\* probe gets a fast 200, with the store up or down.  The two services
\* share no state but the store: a
\* behaviour exercises one of them, and the registry is edited while no
\* cycle run is in flight.
NextSched ==
  \/ \E c \in Calls : \E s \in Svc :
       (\A x \in Svc \ {s} : Idle(x)) /\ StartCall(c, s)
  \/ \E c \in Calls : \E ok \in BOOLEAN : StartLoaded(c, ok)
  \/ \E s \in Svc : Stop(s)
  \/ \E s \in Svc : \E tm \in 1..MaxTimers : TimerFire(s, tm)
  \/ \E o \in {"ok", "save", "load"} : runs = {} /\ ToggleEndpoint(1, o)
  \/ \E r \in runs : \E ok \in BOOLEAN : RunLoad(r, ok)
  \/ \E r \in runs : \E e \in Endpoints : \E F \in {{}, Sites} :
       Probe(r, e, FastOk, F)
  \/ \E r \in runs : ScanEndpoint(r, Quiet, {})
  \/ \E r \in runs : \E purge \in BOOLEAN : RunEnd(r, purge)

InitSched == Init /\ active \subseteq {1}

SpecSched == InitSched /\ [][NextSched]_vars

\* monitorService is started once over both endpoints and its timer drives
\* the cycles one after the other (each run ends before the next firing).
RoundsUpTo(n) ==
  \/ StartCall(1, "perf")
  \/ StartLoaded(1, TRUE)
  \/ cycles < n /\ runs = {} /\ TimerFire("perf", handle["perf"])
  \/ \E r \in runs : RunLoad(r, TRUE)
  \/ \E r \in runs : RunEnd(r, FALSE)

Rounds == RoundsUpTo(MaxRounds)

InitRounds == Init /\ active = Endpoints

\* The probes of a cycle: any answer but the slow one, with the Metric
\* inserts failing or not.
CycleResponses == {x \in Responses : x.responseTime # 800}
CycleFailures == {{}, {"Metric.create"}, Sites}

NextCycle ==
  \/ Rounds
  \/ \E r \in runs : \E e \in Endpoints : \E resp \in CycleResponses :
       \E F \in CycleFailures : Probe(r, e, resp, F)

SpecCycle == InitRounds /\ [][NextCycle]_vars

\* Failing probes (HTTP 500 or transport failure) of a registry of one
\* endpoint, strict or lenient, and operators updating the status of
\* incidents.
InitIncident == Init /\ Cardinality(active) = 1

IncidentResponses == {x \in Responses : x.status # 200}
UpdateFailures == {{}, {"Alert.update"}}

NextIncident ==
  \/ RoundsUpTo(MaxProbes)
  \/ \E r \in runs : \E e \in Endpoints : \E resp \in IncidentResponses :
       Probe(r, e, resp, {})
  \/ \E id \in DOMAIN incidents : \E st \in IncidentStatuses :
       \E b \in Bodies : \E F \in UpdateFailures :
         ops < MaxUpdates /\ UpdateIncidentStatus(id, st, b, F)

SpecIncident == InitIncident /\ [][NextIncident]_vars

\* createAlert called over time for a few keys, with operators updating the
\* status of alerts in between.
CalledTypes == {"RESPONSE_TIME", "STATUS_CODE"}
CalledValues == {500, 800}
ThresholdOf(type) == IF type = "STATUS_CODE" THEN StatusCodeThreshold
                     ELSE Strict.responseTimeThreshold

NextAlert ==
  \/ \E e \in Endpoints : \E type \in CalledTypes : \E v \in CalledValues :
       ops < MaxAlertOps /\ CreateAlert(e, type, v, ThresholdOf(type), {})
  \/ \E id \in DOMAIN alerts : \E st \in AlertStatuses :
       ops < MaxAlertOps /\ UpdateAlertStatus(id, st, {})
  \/ Tick

InitAlert == Init /\ active = Endpoints

SpecAlert == InitAlert /\ [][NextAlert]_vars

\* Threshold evaluation over a stored window.  The rows under evaluation, the
\* answers (one of them as slow as the threshold), and the windows: failed
\* and total Metrics of the endpoint in the store, all of this hour.
EvalEndpoints == {1, 3, 4}
EvalResponses ==
  Responses \cup {[kind |-> "response", status |-> 200, responseTime |-> 500,
                   headers |-> Hardened]}
Windows == { <<0, 0>>, <<1, 1>>, <<11, 19>>, <<21, 49>> }
Window(e, failed, total) ==
  [i \in 1..total |->
     [MetricRow(e, 0, i > failed, IF i > failed THEN 200 ELSE 500, 100,
                FALSE, 0)
        EXCEPT !.metaData = [headers |-> Hardened]]]

InitEval ==
  \E e \in EvalEndpoints : \E w \in Windows :
    /\ active = {e}
    /\ InitOver(Window(e, w[1], w[2]))

NextEval ==
  \/ \E e \in EvalEndpoints : \E resp \in EvalResponses :
       ops < MaxEvals /\ Collect(e, resp)
  \/ \E id \in DOMAIN alerts : \E st \in AlertStatuses :
       ops < MaxEvals /\ UpdateAlertStatus(id, st, {})
  \/ Tick

SpecEval == InitEval /\ [][NextEval]_vars

\* createIncident called for the escalations of the two thresholds, with
\* the insert of the linked Alert failing or not, and operators updating the
\* status of incidents in between.
CreateTitles == {"High Error Rate", "Low Availability"}

NextCreate ==
  \/ \E e \in Endpoints : \E title \in CreateTitles :
       \E F \in {{}, {"Alert.create.linked"}} :
         ops < MaxCreates /\ CreateIncident(e, title, "HIGH", F)
  \/ \E id \in DOMAIN incidents : \E st \in IncidentStatuses :
       \E b \in Bodies :
         ops < MaxCreates /\ UpdateIncidentStatus(id, st, b, {})
  \/ Tick

InitCreate == Init /\ active = Endpoints

SpecCreate == InitCreate /\ [][NextCreate]_vars

\* securityMonitorService is started once and its timer drives the scans
\* one after the other.
ScansUpTo(n) ==
  \/ StartCall(1, "sec")
  \/ cycles < n /\ runs = {} /\ TimerFire("sec", handle["sec"])
  \/ \E r \in runs : RunLoad(r, TRUE)
  \/ \E r \in runs : RunEnd(r, FALSE)

\* The Metric of a probe at time 0 that was answered 200 with the headers
\* headers.
ProbedWindow(e, headers) ==
  <<[MetricRow(e, 0, TRUE, 200, 100, FALSE, 0)
       EXCEPT !.metaData = MetaDataOf([FastOk EXCEPT !.headers = headers])]>>

\* Scans of one endpoint whose last probe was answered with a secret in a
\* header.  What the grouped query answers is an input of each scan.  The
\* clock and the operators move between the scans.
ScanInputs == [groups : {<<100>>, <<200, 201>>, <<201>>}, data : BOOLEAN,
               vuln : BOOLEAN]

InitScan ==
  /\ active = {1}
  /\ InitOver(ProbedWindow(1, [Hardened EXCEPT !.secret = TRUE]))

NextScan ==
  \/ ScansUpTo(MaxScans)
  \/ \E r \in runs : \E in \in ScanInputs : ScanEndpoint(r, in, {})
  \/ \E id \in DOMAIN securityAlerts : \E st \in SecurityAlertStatuses :
       /\ ops < MaxSecUpdates
       /\ runs = {}
       /\ UpdateSecurityAlertStatus(id, st, TRUE, {})
  \/ runs = {} /\ Tick

SpecScan == InitScan /\ [][NextScan]_vars

\* Scans of two endpoints, the first of them answering without the security
\* headers, while store calls of the checks fail: none, one of them, or all.
NextDown ==
  \/ ScansUpTo(MaxScans)
  \/ \E r \in runs : \E in \in ScanInputs :
       \E F \in {{}} \cup {{s} : s \in ScanSites} \cup {ScanSites} :
         ScanEndpoint(r, in, F)

SpecDown ==
  /\ active = Endpoints
  /\ InitOver(ProbedWindow(1, [Hardened EXCEPT !.missing = HeaderThreshold])
              \o ProbedWindow(2, Hardened))
  /\ [][NextDown]_vars

\* Scans of one endpoint over a stored day of 4, 5, 20 or 21 Metrics that
\* were answered 401 or 403; the oldest one is an hour from leaving the last
\* 24 hours.
AuthWindow(e, n) ==
  [i \in 1..n |->
     [MetricRow(e, IF i = 1 THEN HourTicks - (DayTicks + 1) ELSE 0, FALSE,
                IF i % 2 = 0 THEN 401 ELSE 403, 100, FALSE, 0)
        EXCEPT !.metaData = [headers |-> Hardened]]]

NextAuth ==
  \/ ScansUpTo(MaxScans)
  \/ \E r \in runs : ScanEndpoint(r, Quiet, {})
  \/ \E id \in DOMAIN securityAlerts : \E st \in SecurityAlertStatuses :
       /\ ops < MaxSecUpdates
       /\ runs = {}
       /\ UpdateSecurityAlertStatus(id, st, TRUE, {})
  \/ runs = {} /\ Tick

SpecAuth ==
  /\ \E n \in {4, 5, 20, 21} :
       /\ active = {1}
       /\ InitOver(AuthWindow(1, n))
  /\ [][NextAuth]_vars

\* Health scores over stored Metrics.  A sample is <<success, responseTime>>;
\* the first Metric of a window is an hour from leaving the last 24 hours,
\* and an older Metric lies before them.
HealthSamples ==
  { <<>>,
    << <<FALSE, NULL>> >>,
    << <<FALSE, NULL>>, <<FALSE, NULL>> >>,
    << <<TRUE, 100>> >>,
    << <<TRUE, 0>> >>,
    << <<TRUE, 1000>> >>,
    << <<TRUE, 100>>, <<TRUE, 500>> >>,
    << <<TRUE, 100>>, <<TRUE, 300>> >>,
    << <<FALSE, NULL>>, <<TRUE, 800>> >>,
    << <<FALSE, 100>>, <<TRUE, 100>>, <<TRUE, 100>> >>,
    << <<FALSE, NULL>>, <<TRUE, 500>>, <<TRUE, 100>>, <<TRUE, 500>>,
       <<FALSE, 100>> >> }
HealthWindow(e, samples) ==
  <<MetricRow(e, 0 - (DayTicks + 1), TRUE, 200, 900, FALSE, 0)>>
  \o [i \in DOMAIN samples |->
        MetricRow(e, IF i = 1 THEN HourTicks - (DayTicks + 1) ELSE 0,
                  samples[i][1], IF samples[i][1] THEN 200 ELSE 500,
                  samples[i][2], FALSE, 0)]

NextHealth ==
  \/ \E e \in active : HealthScore(e)
  \/ Tick

SpecHealth ==
  /\ \E e \in {1, 2, 5} : \E samples \in HealthSamples :
       /\ active = {e}
       /\ InitOver(HealthWindow(e, samples))
  /\ [][NextHealth]_vars

\* Time ranges asked of the three parsers.
TimeRanges ==
  { <<>>, <<"7">>, <<"d", "7">>, <<"7", "d", "d">>,
    <<"b", "o", "g", "u", "s">>, <<"-", "1", "d">>, <<"7", "D">>,
    <<"7", "d">>, <<"0", "7", "d">>, <<"0", "d">>, <<"1", "h">>,
    <<"2", "4", "h">>, <<"2", "w">>, <<"1", "m">>, <<"1", "y">> }

NextRange ==
  \/ \E s \in TimeRanges : ParseTimeRange(s)
  \/ \E e \in active : \E s \in TimeRanges : \E cal \in Calendars :
       GetEndpointMetrics(e, s, cal)
  \/ \E s \in TimeRanges : \E cal \in Calendars : GetMetricsSummary(s, cal)
  \/ Tick

SpecRange == InitCreate /\ [][NextRange]_vars

\* Status updates of the three kinds of record, by the routes and by a
\* caller of the service, with statuses inside and outside the ENUM of the
\* column, over a store that enforces the ENUM or does not.
NextStatus ==
  \/ ScansUpTo(MaxScans)
  \/ \E r \in runs : ScanEndpoint(r, [Quiet EXCEPT !.groups = <<201>>], {})
  \/ \E e \in Endpoints : \E title \in CreateTitles :
       ops < MaxStatusOps /\ CreateIncident(e, title, "HIGH", {})
  \/ \E id \in DOMAIN incidents : \E st \in IncidentStatuses \cup {"BOGUS"} :
       \E b \in Bodies :
         ops < MaxStatusOps /\ UpdateIncidentStatus(id, st, b, {})
  \/ \E id \in DOMAIN alerts : \E st \in AlertStatuses \cup {"BOGUS"} :
       ops < MaxStatusOps /\ UpdateAlertStatus(id, st, {})
  \/ \E id \in DOMAIN securityAlerts :
       \E st \in SecurityAlertStatuses \cup {"BOGUS"} :
       \E enforced \in BOOLEAN :
         /\ ops < MaxStatusOps
         /\ runs = {}
         /\ \/ UpdateSecurityAlertStatus(id, st, enforced, {})
            \/ ServiceUpdateAlertStatus(id, st, enforced, {})

SpecStatus == InitScan /\ [][NextStatus]_vars

\* Probes, purges and deletions of endpoints over stored Metrics of both
\* endpoints: one older than 30 days, one 30 days old, one younger and one
\* of now.
AgedWindow(e) ==
  [i \in 1..4 |->
     MetricRow(e, CASE i = 1 -> 0 - (ThirtyDays + 1)
                    [] i = 2 -> 0 - ThirtyDays
                    [] i = 3 -> HourTicks - ThirtyDays
                    [] i = 4 -> 0,
               TRUE, 200, 100, FALSE, 0)]

NextPurge ==
  \/ \E e \in Endpoints : ops < MaxPurgeOps /\ Collect(e, FastOk)
  \/ \E ok \in BOOLEAN : ops < MaxPurgeOps /\ CleanupOldMetrics(ok)
  \/ \E e \in active : \E o \in {"ok", "destroy", "load"} :
       ops < MaxPurgeOps /\ DeleteEndpoint(e, o)
  \/ Tick

SpecPurge ==
  /\ active = Endpoints
  /\ InitOver(AgedWindow(1) \o AgedWindow(2))
  /\ [][NextPurge]_vars

\* monitorService is started once and its timer drives the cycles one after
\* the other over a registry of two endpoints that operators toggle at any
\* moment; every read of the registry is a query in flight, and the reads
\* of a cycle and of a route settle in any order.  A probe gets a fast 200
\* or fails in transport.  One route is in flight at a time.
NextRegistry ==
  \/ StartCall(1, "perf")
  \/ StartLoaded(1, TRUE)
  \/ /\ \A r \in runs : r.owner = NULL
     /\ cycles < MaxReloads
     /\ TimerFire("perf", handle["perf"])
  \/ \E e \in Endpoints : \E ok \in BOOLEAN :
       /\ ops < MaxReloads
       /\ \A r \in runs : r.owner # NULL
       /\ ToggleSave(e, ok)
  \/ \E r \in runs : \E ok \in BOOLEAN : LoadRead(r, ok)
  \/ \E r \in runs : LoadDone(r)
  \/ \E r \in runs : \E e \in Endpoints :
       \E resp \in {x \in Responses : x.status # 500 /\ x.responseTime # 800} :
         Probe(r, e, resp, {})
  \/ \E r \in runs : RunEnd(r, FALSE)

SpecRegistry == Init /\ [][NextRegistry]_vars

\* Cycles over one strict endpoint and an empty store: every answer, a slow
\* 500 among them, while one store call of the checks fails or none.
NextOrder ==
  \/ RoundsUpTo(MaxEvals)
  \/ \E r \in runs : \E e \in Endpoints :
       \E resp \in Responses \cup {[kind |-> "response", status |-> 500,
                                    responseTime |-> 800,
                                    headers |-> Hardened]} :
       \E F \in {{}, {"Alert.findOne"}, {"Incident.findOne"},
                 {"Metric.findAll"}} :
         Probe(r, e, resp, F)

SpecOrder ==
  /\ active = {1}
  /\ InitOver(<<>>)
  /\ [][NextOrder]_vars

---------------------------------------------------------------------------
(***************************************************************************)
(* Properties.                                                             *)
(***************************************************************************)

\* Alerts of a type that the step inserts.
Created(type) ==
  {i \in DOMAIN alerts' \ DOMAIN alerts : alerts'[i].type = type}

\* The table holds an Alert that createAlert would find for the key now.
Standing(table, e, type) ==
  \E i \in DOMAIN table : SimilarAlert(table[i], e, type, now)

\* Non-RESOLVED Incidents of an endpoint in a table.
OpenIncidents(table, e) ==
  {i \in DOMAIN table : OpenIncident(table[i], e)}

\* Metrics of the trailing hour of an endpoint with a given outcome.
Outcomes(table, e, success) ==
  {i \in LastHour([metrics |-> table], e, now) : table[i].success = success}

\* C1: every endpoint has at most one Incident whose status is not RESOLVED,
\* after any interleaving of performance cycles and incident status updates.
\* (Violated: updateIncidentStatus moves a RESOLVED incident back to OPEN
\* beside the incident opened since.)
C1_OneOpenIncident ==
  \A e \in Endpoints :
    Cardinality({i \in DOMAIN incidents :
                   OpenIncident(incidents[i], e)}) <= 1

\* C2: no two Alerts other than RESOLVED of the same endpoint and type have
\* creation times within one hour of each other, the linked alerts of
\* incidents included.  (Violated: createIncidentFromError inserts its linked
\* STATUS_CODE alert without the lookup of createAlert.)
C2_NoDuplicateAlert ==
  \A i, j \in DOMAIN alerts :
    (/\ i < j
     /\ KeyOf(alerts[i]) = KeyOf(alerts[j])
     /\ alerts[i].status # "RESOLVED"
     /\ alerts[j].status # "RESOLVED")
    => alerts[j].createdAt - alerts[i].createdAt > HourTicks

\* The Metric rows a cycle persisted for an endpoint.
MetricsOf(c, e) ==
  {i \in DOMAIN metrics : metrics[i].cycle = c /\ metrics[i].endpointId = e}

\* C3 as stated: when a performance cycle ends, exactly one Metric of the
\* cycle exists for every endpoint of its snapshot.  (Violated when the store
\* rejects the insert.)
C3_ExactlyOneMetric ==
  (last.op = "cycleEnd" /\ last.svc = "perf")
  => \A e \in last.snapshot : Cardinality(MetricsOf(last.cycle, e)) = 1

\* The store rejected every Metric insert the last probe attempted.
InsertRejected ==
  \/ last.kind = "error" /\ "Metric.create.catch" \in last.fails
  \/ /\ last.kind = "response"
     /\ {"Metric.create", "Metric.create.catch"} \subseteq last.fails

\* C3 amended: a cycle never persists two Metrics for an endpoint; a probe
\* persists exactly one, on a response and on a transport failure, unless the
\* store rejects the insert, and then none and its promise is rejected; an
\* endpoint of the snapshot that has settled has one Metric unless its
\* promise was rejected.
C3_OneMetricUnlessRejected ==
  /\ \A c \in 1..cycles : \A e \in Endpoints :
       Cardinality(MetricsOf(c, e)) <= 1
  /\ last.op = "probe"
     => /\ Cardinality(MetricsOf(last.cycle, last.e))
             = IF InsertRejected THEN 0 ELSE 1
        /\ (last.settled = "rejected") = InsertRejected
  /\ \A r \in runs : \A e \in Endpoints :
       (r.svc = "perf" /\ r.pc = "work" /\ e \in r.snapshot \ r.pending)
       => Cardinality(MetricsOf(r.id, e))
            = IF e \in r.rejected THEN 0 ELSE 1

\* A cycle over both endpoints ended with one Metric each, one of a response
\* and one of a transport failure.
C3_Witness ==
  /\ last.op = "cycleEnd"
  /\ last.svc = "perf"
  /\ last.snapshot = Endpoints
  /\ \A e \in Endpoints : Cardinality(MetricsOf(last.cycle, e)) = 1
  /\ \E i, j \in DOMAIN metrics :
       /\ metrics[i].cycle = last.cycle
       /\ metrics[j].cycle = last.cycle
       /\ metrics[i].success
       /\ metrics[j].errorMessage /\ metrics[j].responseTime = NULL

\* C4: at no time are two runs of the same cycle in progress.  (Violated: the
\* interval timer fires whether or not the previous callback has finished.)
C4_NoOverlap ==
  \A s \in Svc : Cardinality({r \in runs : r.svc = s}) <= 1

C6_ResolveCascades ==
  [][(/\ last'.op = "updateIncidentStatus"
      /\ last'.status = "RESOLVED"
      /\ last'.http = 200)
     => /\ incidents'[last'.id].status = "RESOLVED"
        /\ incidents'[last'.id].resolution # "null"
        /\ incidents'[last'.id].resolvedBy # "null"
        /\ incidents'[last'.id].endTime # NULL
        /\ DOMAIN alerts' = DOMAIN alerts
        /\ \A i \in DOMAIN alerts :
             IF alerts[i].incidentId = last'.id
             THEN alerts'[i].status = "RESOLVED"
             ELSE alerts'[i] = alerts[i]]_vars

\* An incident was resolved: its linked Alert is RESOLVED, an Alert with no
\* incident is not.
C6_Witness ==
  /\ last.op = "updateIncidentStatus"
  /\ last.status = "RESOLVED"
  /\ last.http = 200
  /\ \E i \in DOMAIN alerts :
       alerts[i].incidentId = last.id /\ alerts[i].status = "RESOLVED"
  /\ \E j \in DOMAIN alerts :
       alerts[j].incidentId = NULL /\ alerts[j].status # "RESOLVED"

\* C7: once stop() has returned true and until start() is called again,
\* isRunning is false and no cycle of the service begins; stop() on a service
\* that is not running returns false and changes nothing.  (Violated: a
\* start() that is awaiting its initial collection when stop() returns arms
\* the timer all the same.)
C7_StopHolds ==
  [][\A s \in Svc :
       /\ (stopped[s] /\ stopped'[s])
          => /\ ~isRunning'[s]
             /\ \A r \in runs' : r.svc = s => \E q \in runs : q.id = r.id
       /\ (last'.api = "stop" /\ last'.svc = s /\ ~isRunning[s])
          => /\ last'.ret = "false"
             /\ UNCHANGED <<isRunning, armed, handle, endpoints, runs,
                            storeVars>>]_vars

\* C8: start() on a service that is already running returns false and arms no
\* timer, begins no collection or scan, and leaves isRunning and the endpoint
\* cache as they are.
C8_StartWhileRunning ==
  [][(last'.op = "start" /\ isRunning[last'.svc])
     => /\ last'.api = "start"
        /\ last'.ret = "false"
        /\ UNCHANGED <<isRunning, armed, handle, nextTimer, endpoints, calls,
                       runs, cycles, storeVars>>]_vars

\* start() was refused on a service whose timer is armed.
C8_Witness ==
  /\ last.op = "start"
  /\ last.running
  /\ last.ret = "false"
  /\ isRunning[last.svc]
  /\ armed[last.svc] # {}

\* C9: start() returns false and leaves isRunning false when the store held no
\* active endpoint during the call.  (Violated: securityMonitorService.start
\* does not look at the number of endpoints.)
C9_StartWithoutEndpoints ==
  (last.api = "start" /\ last.zero /\ ~last.running)
  => (last.ret = "false" /\ ~isRunning[last.svc])

\* C10: start() returns a boolean, never throws, and returns false when a
\* read of the endpoint list failed during the call.
C10_StartReportsFailure ==
  last.api = "start"
  => /\ last.ret \in {"true", "false"}
     /\ last.failed => last.ret = "false"

\* start() returned false after the read of the endpoint list failed.
C10_Witness ==
  /\ last.api = "start"
  /\ last.failed
  /\ last.ret = "false"

\* C11: when a performance cycle ends every endpoint of its snapshot has
\* settled on its own account, whatever happened to the others: its Metric
\* is persisted unless its own promise was rejected, and a failing response
\* that was persisted has been evaluated (its STATUS_CODE Alert exists).
C11_FailureIsolation ==
  (last.op = "cycleEnd" /\ last.svc = "perf")
  => \A e \in last.snapshot :
       /\ Cardinality(MetricsOf(last.cycle, e))
            = IF e \in last.rejected THEN 0 ELSE 1
       /\ \A i \in MetricsOf(last.cycle, e) :
            (~metrics[i].success /\ ~metrics[i].errorMessage)
            => \E a \in DOMAIN alerts :
                 KeyOf(alerts[a]) = <<e, "STATUS_CODE">>

\* A cycle ended in which the promise of one endpoint was rejected and the
\* failing response of the other was persisted and evaluated.
C11_Witness ==
  /\ last.op = "cycleEnd"
  /\ last.svc = "perf"
  /\ last.snapshot = Endpoints
  /\ last.rejected # {}
  /\ \E e \in Endpoints \ last.rejected : \E i \in MetricsOf(last.cycle, e) :
       /\ ~metrics[i].success
       /\ ~metrics[i].errorMessage
       /\ \E a \in DOMAIN alerts : KeyOf(alerts[a]) = <<e, "STATUS_CODE">>

\* C12: an error inside a cycle begun by the timer (a failed refresh of the
\* registry, a rejected probe) leaves the interval timer of the service
\* armed, and isRunning as it is: only stop() disarms a timer.
C12_TimerSurvivesErrors ==
  [][/\ \A s \in Svc : armed[s] \subseteq armed'[s] \/ last'.api = "stop"
     /\ (/\ last'.op \in {"cycleLoad", "probe"}
         /\ last'.failed \/ last'.settled = "rejected"
         /\ \E r \in runs : r.id = last'.cycle /\ r.owner = 0)
        => /\ armed' = armed
           /\ handle' = handle
           /\ isRunning' = isRunning]_vars

\* The refresh of the registry failed in a cycle begun by the timer of a
\* running service, and the timer is still armed.
C12_Witness ==
  /\ last.op = "cycleLoad"
  /\ last.failed
  /\ last.api = "none"
  /\ isRunning[last.svc]
  /\ handle[last.svc] \in armed[last.svc]

\* C13: no step moves the status of an Alert back (NEW, ACKNOWLEDGED,
\* RESOLVED in this order), and an Alert that enters ACKNOWLEDGED has
\* acknowledgedBy and acknowledgedAt set.
C13_AlertStatusForward ==
  [][\A i \in DOMAIN alerts :
       /\ StatusRank(alerts'[i].status) >= StatusRank(alerts[i].status)
       /\ (alerts[i].status # "ACKNOWLEDGED"
           /\ alerts'[i].status = "ACKNOWLEDGED")
          => /\ alerts'[i].acknowledgedBy # "null"
             /\ alerts'[i].acknowledgedAt # NULL]_vars

\* C14: no step moves the status of an Incident back (OPEN, ACKNOWLEDGED,
\* RESOLVED in this order).
C14_IncidentStatusForward ==
  [][\A i \in DOMAIN incidents :
       StatusRank(incidents'[i].status)
         >= StatusRank(incidents[i].status)]_vars

\* C15: a probe that persists a Metric for an endpoint whose error rate over
\* the last hour (failed / total * 100) is above errorRateThreshold leaves a
\* non-RESOLVED ERROR_RATE Alert of the last hour for it; at a rate that is
\* not above the threshold the probe creates no ERROR_RATE Alert.
C15_ErrorRateAlert ==
  [][(last'.op = "collect" /\ Len(metrics') > Len(metrics))
     => LET e == last'.e
            failed == Cardinality(Outcomes(metrics', e, FALSE))
            total == failed + Cardinality(Outcomes(metrics', e, TRUE))
        IN IF failed * 100 > EndpointRow(e).errorRateThreshold * total
           THEN Standing(alerts', e, "ERROR_RATE")
           ELSE Created("ERROR_RATE") = {}]_vars

\* C16: an evaluation that finds the error rate above twice the threshold
\* leaves the endpoint with a non-RESOLVED Incident of severity HIGH titled
\* "High Error Rate", whatever incidents it had before.
C16_HighErrorRateIncident ==
  (/\ last.op = "probe"
   /\ last.kind = "response"
   /\ last.fails = {}
   /\ Above(Cardinality(Outcomes(metrics, last.e, FALSE)),
            Cardinality(LastHour(Store, last.e, now)),
            EndpointRow(last.e).errorRateThreshold * 2))
  => \E i \in OpenIncidents(incidents, last.e) :
       /\ incidents[i].severity = "HIGH"
       /\ incidents[i].title = "High Error Rate"

\* C16, amended: such an evaluation leaves the endpoint with a non-RESOLVED
\* Incident: the one it had, unchanged, or else a new OPEN Incident of
\* severity HIGH titled "High Error Rate".
C16_IncidentRaisedOrAttached ==
  [][(/\ last'.op = "probe"
      /\ last'.kind = "response"
      /\ last'.fails = {}
      /\ Above(Cardinality(Outcomes(metrics', last'.e, FALSE)),
               Cardinality(LastHour([metrics |-> metrics'], last'.e, now)),
               EndpointRow(last'.e).errorRateThreshold * 2))
     => IF OpenIncidents(incidents, last'.e) # {}
        THEN incidents' = incidents
        ELSE /\ Len(incidents') = Len(incidents) + 1
             /\ SubSeq(incidents', 1, Len(incidents)) = incidents
             /\ LET i == incidents'[Len(incidents')] IN
                  /\ i.endpointId = last'.e
                  /\ i.status = "OPEN"
                  /\ i.severity = "HIGH"
                  /\ i.title = "High Error Rate"]_vars

\* An evaluation found the error rate above twice the threshold while the
\* endpoint had the open MEDIUM Incident of a transport failure.
C16_Witness ==
  /\ last.op = "probe"
  /\ last.kind = "response"
  /\ Above(Cardinality(Outcomes(metrics, last.e, FALSE)),
           Cardinality(LastHour(Store, last.e, now)),
           EndpointRow(last.e).errorRateThreshold * 2)
  /\ \E i \in OpenIncidents(incidents, last.e) :
       incidents[i].severity = "MEDIUM"

\* C17: an evaluation over a window of the last hour raises the AVAILABILITY
\* Alert exactly when availability (successes / total * 100) is below
\* availabilityThreshold, and the "Low Availability" Incident exactly when it
\* is below the threshold less 10; at either bound nothing is raised.
C17_AvailabilityBounds ==
  [][(last'.op = "collect" /\ last'.kind = "response")
     => LET e == last'.e
            ok == Cardinality(Outcomes(metrics', e, TRUE))
            total == ok + Cardinality(Outcomes(metrics', e, FALSE))
            bound == EndpointRow(e).availabilityThreshold
        IN /\ IF ok * 100 < bound * total
              THEN Standing(alerts', e, "AVAILABILITY")
              ELSE Created("AVAILABILITY") = {}
           /\ IF ok * 100 < (bound - 10) * total
              THEN OpenIncidents(incidents', e) # {}
              ELSE \A i \in DOMAIN incidents' \ DOMAIN incidents :
                     incidents'[i].title # "Low Availability"]_vars

\* C18: a probe that persists a Metric with success = false leaves a
\* non-RESOLVED STATUS_CODE Alert of the last hour for the endpoint, and a
\* STATUS_CODE Alert it creates has the status code of the Metric as value
\* and 400 as threshold.
C18_StatusCodeAlert ==
  [][(/\ last'.op = "probe"
      /\ Len(metrics') > Len(metrics)
      /\ ~metrics'[Len(metrics')].success)
     => /\ Standing(alerts', last'.e, "STATUS_CODE")
        /\ \A i \in Created("STATUS_CODE") :
             /\ alerts'[i].value = metrics'[Len(metrics')].statusCode
             /\ alerts'[i].threshold = StatusCodeThreshold]_vars

\* C19: an evaluated Metric slower than responseTimeThreshold, with no
\* non-RESOLVED RESPONSE_TIME Alert of the last hour for the endpoint, makes
\* the evaluation create exactly one RESPONSE_TIME Alert, its value the
\* response time and its threshold the configured one; a Metric that is not
\* slower than the threshold creates none.
C19_ResponseTimeAlert ==
  [][(last'.op = "collect" /\ last'.kind = "response")
     => LET e == last'.e
            metric == metrics'[Len(metrics')]
            bound == EndpointRow(e).responseTimeThreshold
        IN IF metric.responseTime > bound
           THEN ~Standing(alerts, e, "RESPONSE_TIME")
                => \E i \in DOMAIN alerts' :
                     /\ Created("RESPONSE_TIME") = {i}
                     /\ alerts'[i].endpointId = e
                     /\ alerts'[i].value = metric.responseTime
                     /\ alerts'[i].threshold = bound
           ELSE Created("RESPONSE_TIME") = {}]_vars

\* A slow Metric was evaluated after the RESPONSE_TIME Alert of an earlier
\* one had left the last hour: the endpoint has two such Alerts, 800 against
\* 500.
C19_Witness ==
  /\ last.op = "collect"
  /\ last.kind = "response"
  /\ metrics[Len(metrics)].responseTime = 800
  /\ \E i, j \in DOMAIN alerts :
       /\ i < j
       /\ alerts[i].type = "RESPONSE_TIME"
       /\ alerts[j].type = "RESPONSE_TIME"
       /\ alerts[j].createdAt = now
       /\ alerts[j].value = 800
       /\ alerts[j].threshold = 500
       /\ alerts[i].createdAt < now - HourTicks

\* C20: a transport failure persists one Metric with success = false and
\* errorMessage set, and leaves the endpoint with exactly one non-RESOLVED
\* Incident: a new OPEN one of severity MEDIUM titled "Error detected" when
\* it had none, the Incident table as it was when it had one.
C20_TransportFailure ==
  [][(last'.op = "probe" /\ last'.kind = "error")
     => /\ Len(metrics') = Len(metrics) + 1
        /\ ~metrics'[Len(metrics')].success
        /\ metrics'[Len(metrics')].errorMessage
        /\ Cardinality(OpenIncidents(incidents', last'.e)) = 1
        /\ IF OpenIncidents(incidents, last'.e) = {}
           THEN /\ Len(incidents') = Len(incidents) + 1
                /\ LET i == incidents'[Len(incidents')] IN
                     /\ i.endpointId = last'.e
                     /\ i.status = "OPEN"
                     /\ i.severity = "MEDIUM"
                     /\ i.title = "Error detected"
           ELSE incidents' = incidents]_vars

\* C21: createIncident returns the non-RESOLVED Incident of the endpoint when
\* there is one and leaves the Incident and Alert tables as they were;
\* otherwise it inserts exactly one Incident, OPEN with startTime = now, and
\* exactly one Alert, NEW and linked to the new Incident.
C21_CreateIncident ==
  [][last'.op = "createIncident"
     => IF OpenIncidents(incidents, last'.e) # {}
        THEN /\ last'.id \in OpenIncidents(incidents, last'.e)
             /\ incidents' = incidents
             /\ alerts' = alerts
        ELSE /\ Len(incidents') = Len(incidents) + 1
             /\ SubSeq(incidents', 1, Len(incidents)) = incidents
             /\ incidents'[Len(incidents')].endpointId = last'.e
             /\ incidents'[Len(incidents')].status = "OPEN"
             /\ incidents'[Len(incidents')].startTime = now
             /\ Len(alerts') = Len(alerts) + 1
             /\ SubSeq(alerts', 1, Len(alerts)) = alerts
             /\ alerts'[Len(alerts')].status = "NEW"
             /\ alerts'[Len(alerts')].incidentId = Len(incidents')]_vars

\* C22: in every reachable state, no two SecurityAlerts whose status is not
\* RESOLVED exist for the same endpoint and type with timestamps inside the
\* same deduplication window (24 hours for AUTH_FAILURE, one hour for the
\* other types).
C22_OneStandingAlertPerWindow ==
  \A i, j \in DOMAIN securityAlerts :
    LET a == securityAlerts[i]
        b == securityAlerts[j]
        window == IF a.type = "AUTH_FAILURE" THEN DayTicks ELSE HourTicks
    IN (/\ i < j
        /\ a.endpointId = b.endpointId
        /\ a.type = b.type
        /\ a.status # "RESOLVED"
        /\ b.status # "RESOLVED")
       => b.timestamp - a.timestamp > window

\* C23: a scan of an endpoint with a Metric of the last hour whose response
\* metadata holds a secret creates exactly one SENSITIVE_DATA alert of
\* severity HIGH when no non-RESOLVED one of the last hour exists, and none
\* when one exists.
C23_SensitiveDataAlert ==
  [][LET e == last'.e
         leaking ==
           {i \in WithMetaData(Store, e, now) :
              \E k \in DOMAIN metrics[i].metaData :
                metrics[i].metaData[k].secret}
         standing ==
           {i \in DOMAIN securityAlerts :
              SimilarSecurityAlert(securityAlerts[i], e, "SENSITIVE_DATA",
                                   now - HourTicks)}
         raised ==
           {i \in DOMAIN securityAlerts' \ DOMAIN securityAlerts :
              securityAlerts'[i].type = "SENSITIVE_DATA"}
     IN (last'.op = "scan" /\ leaking # {})
        => IF standing # {} THEN raised = {}
           ELSE /\ Cardinality(raised) = 1
                /\ \A i \in raised :
                     /\ securityAlerts'[i].severity = "HIGH"
                     /\ securityAlerts'[i].endpointId = e]_vars

\* C24: a scan creates a RATE_LIMIT alert for the endpoint if and only if a
\* minute of the grouped query counts more than 100 Metrics and no
\* non-RESOLVED RATE_LIMIT alert of the last hour exists; it creates one at
\* most, of severity HIGH if a minute counts more than 200 and MEDIUM
\* otherwise.
C24_RateLimitAlert ==
  [][LET e == last'.e
         groups == last'.input.groups
         standing ==
           {i \in DOMAIN securityAlerts :
              SimilarSecurityAlert(securityAlerts[i], e, "RATE_LIMIT",
                                   now - HourTicks)}
         raised ==
           {i \in DOMAIN securityAlerts' \ DOMAIN securityAlerts :
              securityAlerts'[i].type = "RATE_LIMIT"}
     IN last'.op = "scan"
        => /\ raised # {} <=> /\ \E m \in DOMAIN groups : groups[m] > 100
                              /\ standing = {}
           /\ Cardinality(raised) <= 1
           /\ \A i \in raised :
                /\ securityAlerts'[i].endpointId = e
                /\ securityAlerts'[i].severity =
                     IF \E m \in DOMAIN groups : groups[m] > 200
                     THEN "HIGH" ELSE "MEDIUM"]_vars

C26_EveryCheckAttempted ==
  (last.op = "cycleEnd" /\ last.svc = "sec")
  => last.checked = last.snapshot \X SecurityTypes

\* A scan of two endpoints has ended with the store down in every check.
C26_Witness ==
  /\ last.op = "cycleEnd"
  /\ last.svc = "sec"
  /\ last.snapshot = Endpoints
  /\ last.down = ScanSites
  /\ last.checked = Endpoints \X SecurityTypes

C28_TimeRange ==
  LET s == last.range
      wellFormed ==
        /\ Len(s) >= 2
        /\ \A i \in 1..(Len(s) - 1) :
             s[i] \in {"0", "1", "2", "3", "4", "5", "6", "7", "8", "9"}
        /\ s[Len(s)] \in {"h", "d", "w", "m", "y"}
      N == parseInt(SubSeq(s, 1, Len(s) - 1))
      unit == s[Len(s)]
  IN last.op \in {"parseTimeRange", "getEndpointMetrics",
                  "getMetricsSummary"}
     => /\ last.ret \notin {"throw", "invalid"} <=> wellFormed
        /\ ~wellFormed => ~last.reads
        /\ (wellFormed /\ unit = "h") => last.start = now - N * 2
        /\ (wellFormed /\ unit = "d") => last.start = now - N * 24 * 2
        /\ (wellFormed /\ unit = "w") => last.start = now - N * 7 * 24 * 2

\* C29: a status update of an Alert, an Incident or a SecurityAlert (by a
\* route or by updateAlertStatus of the security service) with a status
\* outside the allowed set of the record is rejected and leaves every Alert,
\* Incident and SecurityAlert as it was.
C29_UnknownStatusRejected ==
  [][LET allowed ==
           CASE last'.op = "updateIncidentStatus" ->
                  {"OPEN", "ACKNOWLEDGED", "RESOLVED"}
             [] last'.op = "updateAlertStatus" ->
                  {"NEW", "ACKNOWLEDGED", "RESOLVED"}
             [] OTHER ->
                  {"NEW", "ACKNOWLEDGED", "RESOLVED", "FALSE_POSITIVE"}
     IN (/\ last'.op \in {"updateIncidentStatus", "updateAlertStatus",
                          "updateSecurityAlertStatus",
                          "serviceUpdateAlertStatus"}
         /\ last'.status \notin allowed)
        => /\ last'.http = 400 \/ last'.ret = "throw"
           /\ alerts' = alerts
           /\ incidents' = incidents
           /\ securityAlerts' = securityAlerts]_vars

\* C30: Metrics are append-only.  No step modifies a stored Metric; the only
\* step that deletes is cleanupOldMetrics, which deletes exactly the Metrics
\* whose timestamp is more than 30 days before now.
C30_AppendOnly ==
  [][\/ metrics' = metrics
     \/ /\ Len(metrics') > Len(metrics)
        /\ SubSeq(metrics', 1, Len(metrics)) = metrics
     \/ /\ last'.op = "cleanupOldMetrics"
        /\ metrics' = SelectSeq(metrics,
                                LAMBDA m : now - m.timestamp <= 30 * 24 * 2)
    ]_vars

\* C30 (amended): as C30, but the deletion of an Endpoint also deletes the
\* Metrics of that endpoint, whatever their age.
C30_AppendOnlyButEndpointDeletion ==
  [][\/ metrics' = metrics
     \/ /\ Len(metrics') > Len(metrics)
        /\ SubSeq(metrics', 1, Len(metrics)) = metrics
     \/ /\ last'.op = "cleanupOldMetrics"
        /\ metrics' = SelectSeq(metrics,
                                LAMBDA m : now - m.timestamp <= 30 * 24 * 2)
     \/ /\ last'.op = "deleteEndpoint"
        /\ metrics' = SelectSeq(metrics,
                                LAMBDA m : m.endpointId # last'.e)
    ]_vars

\* A purge has deleted Metrics and left one that is exactly 30 days old,
\* after the deletion of endpoint 1 with its Metrics.
C30_Witness ==
  /\ last.op = "cleanupOldMetrics"
  /\ last.deleted > 0
  /\ \E i \in DOMAIN metrics : metrics[i].timestamp = now - ThirtyDays
  /\ \A i \in DOMAIN metrics : metrics[i].endpointId = 2

\* C31: a performance cycle probes the endpoints that the store held as
\* active when it answered the refresh of the cycle, and no other: every
\* probe is of an endpoint of the snapshot that has not been probed in the
\* cycle and sends one HTTP request, a probe that fails included, and when
\* the cycle ends every endpoint of the snapshot has been probed.
C31_OneRequestPerEndpoint ==
  [][/\ last'.op = "loadRead"
        => \E r \in runs' : /\ r.id = last'.cycle
                            /\ r.pc = "read"
                            /\ r.snapshot = active
     /\ (last'.op = "cycleLoad" /\ ~last'.failed)
        => \E r \in runs' : \E q \in runs :
             /\ r.id = last'.cycle /\ r.owner # NULL
             /\ q.id = r.id /\ q.owner = r.owner
             /\ q.pc = "read" => r.snapshot = q.snapshot
             /\ r.pending = r.snapshot
             /\ r.sent = 0
     /\ last'.op = "probe"
        => \E r \in runs' : \E q \in runs :
             /\ r.id = last'.cycle /\ r.owner # NULL
             /\ q.id = r.id /\ q.owner = r.owner
             /\ last'.e \in q.pending
             /\ r.pending = q.pending \ {last'.e}
             /\ r.snapshot = q.snapshot
             /\ r.sent = q.sent + 1
     /\ \A r \in runs' :
          (r.svc = "perf" /\ r.pc = "work")
          => r.sent = Cardinality(r.snapshot \ r.pending)
     /\ (last'.op = "cycleEnd" /\ last'.svc = "perf")
        => \E q \in runs :
             /\ q.id = last'.cycle /\ q.owner # NULL
             /\ q.snapshot = last'.snapshot
             /\ q.sent = Cardinality(q.snapshot)]_vars

\* A cycle ended that probed one endpoint, in vain, and left alone the
\* endpoint that was activated after its refresh.
C31_Witness ==
  /\ last.op = "cycleEnd"
  /\ last.svc = "perf"
  /\ last.snapshot = {1}
  /\ active = Endpoints
  /\ MetricsOf(last.cycle, 2) = {}
  /\ \E i \in DOMAIN metrics :
       /\ MetricsOf(last.cycle, 1) = {i}
       /\ metrics[i].errorMessage

\* C32: whenever no start() call of a service is in progress, the service
\* has an interval timer armed if and only if its isRunning is true.
\* (Violated: a start() that is awaiting its initial collection or scan when
\* stop() returns true arms its timer afterwards, with isRunning false.)
C32_TimerIffRunning ==
  \A s \in Svc :
    (\A c \in InFlight : calls[c].svc # s)
    => (armed[s] # {} <=> isRunning[s])

\* C33: when start() returns false because a read of the store failed during
\* the call, and no other start() of the service is in progress or has armed
\* a timer, isRunning is false.  (Violated: the catch block of
\* monitorService.start leaves isRunning as the call had set it.)
C33_FailedStartNotRunning ==
  (/\ last.api = "start"
   /\ last.failed
   /\ last.ret = "false"
   /\ armed[last.svc] = {}
   /\ \A c \in InFlight : calls[c].svc # last.svc)
  => ~isRunning[last.svc]

\* C34: a service never has two interval timers armed, and when stop()
\* returns true it has none.  (Violated: two monitorService.start() calls
\* that both pass the isRunning test while loadEndpoints is pending arm a
\* timer each, and stop() clears the one this.monitoringInterval holds.)
C34_OneTimer ==
  /\ \A s \in Svc : Cardinality(armed[s]) <= 1
  /\ (last.api = "stop" /\ last.ret = "true") => armed[last.svc] = {}

\* C35: in every state, every Alert linked to an Incident that is RESOLVED
\* is RESOLVED.  (Violated: updateIncidentStatus saves the Incident and then
\* updates the Alerts in a second store call, which can fail; and
\* updateAlertStatus sets any status on an Alert of a RESOLVED Incident.)
C35_AlertsOfResolvedIncident ==
  \A a \in DOMAIN alerts :
    (/\ alerts[a].incidentId \in DOMAIN incidents
     /\ incidents[alerts[a].incidentId].status = "RESOLVED")
    => alerts[a].status = "RESOLVED"

\* C36: in every state, every Incident has an Alert linked to it: the
\* Incident and its Alert are inserted together or not at all.  (Violated:
\* the two inserts are separate store calls and the second can fail.)
C36_IncidentHasAlert ==
  \A i \in DOMAIN incidents :
    \E a \in DOMAIN alerts : alerts[a].incidentId = i

\* C37: a probe that was answered by an HTTP response persists no Metric
\* with errorMessage set and statusCode 0 and opens no "Error detected"
\* Incident, whatever the store does.  (Violated: a failed Metric insert is
\* caught by the catch block of the transport failures.)
C37_ResponseIsNoTransportFailure ==
  [][(last'.op = "probe" /\ last'.kind = "response")
     => /\ \A i \in DOMAIN metrics' \ DOMAIN metrics :
             ~(metrics'[i].errorMessage /\ metrics'[i].statusCode = 0)
        /\ \A i \in DOMAIN incidents' \ DOMAIN incidents :
             incidents'[i].title # "Error detected"]_vars

\* C38: an evaluation that escalates (error rate above twice the threshold,
\* availability more than ten points below the threshold) links the
\* ERROR_RATE or AVAILABILITY Alert it inserts to a non-RESOLVED Incident of
\* the endpoint.  (Violated: createAlert inserts the Alert without
\* incidentId; createIncident links an Alert of its own, of type OTHER.)
C38_EscalationAlertLinked ==
  [][(last'.op = "collect" /\ Len(metrics') > Len(metrics))
     => LET e == last'.e
            row == EndpointRow(e)
            total == Cardinality(LastHour([metrics |-> metrics'], e, now))
            failed == Cardinality(Outcomes(metrics', e, FALSE))
        IN /\ Above(failed, total, row.errorRateThreshold * 2)
              => \A a \in Created("ERROR_RATE") :
                   alerts'[a].incidentId \in OpenIncidents(incidents', e)
           /\ Below(total - failed, total, row.availabilityThreshold - 10)
              => \A a \in Created("AVAILABILITY") :
                   alerts'[a].incidentId \in OpenIncidents(incidents', e)
    ]_vars

\* C39: a probe that was answered and whose Metric was inserted is evaluated
\* after the insert: the window of the last hour that checkErrorRate and
\* checkAvailability read holds the Metric of the probe.  The Alerts of one
\* evaluation are inserted in the order RESPONSE_TIME, STATUS_CODE,
\* ERROR_RATE, AVAILABILITY, and a check runs whether or not an earlier one
\* failed: the availability Alert is raised when the escalation of the
\* error rate failed, the escalation when the Alerts could not be read.
C39_EvaluationAfterInsert ==
  [][(/\ last'.op = "probe"
      /\ last'.kind = "response"
      /\ "Metric.create" \notin last'.fails)
     => LET e == last'.e
            F == last'.fails
            row == EndpointRow(e)
            own == Len(metrics')
            total == Cardinality(LastHour([metrics |-> metrics'], e, now))
            failed == Cardinality(Outcomes(metrics', e, FALSE))
            rank == [t \in AlertTypes |->
                       CASE t = "RESPONSE_TIME" -> 1
                         [] t = "STATUS_CODE" -> 2
                         [] t = "ERROR_RATE" -> 3
                         [] t = "AVAILABILITY" -> 4
                         [] OTHER -> 0]
            new == {i \in DOMAIN alerts' \ DOMAIN alerts :
                      alerts'[i].type # "OTHER"}
        IN /\ own = Len(metrics) + 1
           /\ own \in LastHour([metrics |-> metrics'], e, now)
           /\ \A i, j \in new :
                i < j => rank[alerts'[i].type] < rank[alerts'[j].type]
           /\ F \in {{}, {"Incident.findOne"}}
              => /\ Above(failed, total, row.errorRateThreshold)
                    => /\ Standing(alerts', e, "ERROR_RATE")
                       /\ \A i \in Created("ERROR_RATE") :
                            alerts'[i].value = Percent(failed, total)
                 /\ Below(total - failed, total, row.availabilityThreshold)
                    => /\ Standing(alerts', e, "AVAILABILITY")
                       /\ \A i \in Created("AVAILABILITY") :
                            alerts'[i].value = Percent(total - failed, total)
           /\ (/\ F \in {{}, {"Alert.findOne"}}
               /\ Above(failed, total, row.errorRateThreshold * 2))
              => OpenIncidents(incidents', e) # {}]_vars

\* The first probe of the endpoint was answered a slow 500 while the lookup
\* of the Incidents failed: its Metric is the whole window, the four Alerts
\* were inserted in order, and no Incident was.
C39_Witness ==
  /\ last.op = "probe"
  /\ last.fails = {"Incident.findOne"}
  /\ Len(metrics) = 1
  /\ ~metrics[1].success
  /\ incidents = <<>>
  /\ [i \in DOMAIN alerts |-> alerts[i].type]
       = <<"RESPONSE_TIME", "STATUS_CODE", "ERROR_RATE", "AVAILABILITY">>

\* C40: once monitorService has been started, whenever no loadEndpoints call
\* is in flight the registry cache holds the endpoints that are active in
\* the store.  (Violated: of two reads in flight the one that read first
\* can be assigned last; and a route whose reload fails leaves the cache as
\* it was before the change.)
C40_CacheMatchesStore ==
  (/\ cycles > 0
   /\ \A r \in runs : r.pc \notin {"load", "read"}
   /\ \A c \in InFlight : calls[c].pc # "load")
  => endpoints = active

=============================================================================
